---------------------------- MODULE Spec2Model ----------------------------
(***************************************************************************)
(* Principal directory management (ManageDirectory for Store),             *)
(* crates/directory/src/backend/internal/manage.rs.                        *)
(*                                                                         *)
(* The key-value store is one record of key families.  Every public        *)
(* operation is a task that suspends at its store reads and mutates the    *)
(* store only through one atomic batch.  A task's reads are grouped into   *)
(* the steps named at each action; tasks interleave between steps.         *)
(***************************************************************************)
EXTENDS Integers, Sequences, FiniteSets, TLC

VARIABLES store, task, started

vars == <<store, task, started>>

(***************************************************************************)
(* Bounds of the model.                                                    *)
(***************************************************************************)
\* operations started in one behaviour of the respective specification
MaxOps == 3
MaxOpsGoc == 8

Procs == {"t1", "t2", "t3"}

(***************************************************************************)
(* Strings: a name is a sequence of characters.                            *)
(***************************************************************************)
UpperChars == {"A", "B", "D", "G", "N", "U", "X"}

LowerChar(c) ==
    CASE c = "A" -> "a"
      [] c = "B" -> "b"
      [] c = "D" -> "d"
      [] c = "G" -> "g"
      [] c = "N" -> "n"
      [] c = "U" -> "u"
      [] c = "X" -> "x"
      [] OTHER -> c

\* str::to_lowercase
ToLower(s) == [i \in 1..Len(s) |-> LowerChar(s[i])]

AtPositions(s) == {i \in 1..Len(s) : s[i] = "@"}

Min(S) == CHOOSE x \in S : \A y \in S : x <= y

\* name.split('@').nth(1): Some(..) iff the string holds an '@'
HasDomain(s) == AtPositions(s) # {}

DomainOf(s) ==
    LET first == Min(AtPositions(s))
        later == {i \in AtPositions(s) : i > first}
        stop  == IF later = {} THEN Len(s) + 1 ELSE Min(later)
    IN  SubSeq(s, first + 1, stop - 1)

\* Vec::contains
Contains(seq, x) == \E i \in 1..Len(seq) : seq[i] = x

Range(seq) == {seq[i] : i \in 1..Len(seq)}

\* Vec::remove(position of the first x)
RemoveFirst(seq, x) ==
    LET pos == Min({i \in 1..Len(seq) : seq[i] = x})
    IN  SubSeq(seq, 1, pos - 1) \o SubSeq(seq, pos + 1, Len(seq))

\* retain(|v| v != x)
RECURSIVE Without(_, _)
Without(seq, x) ==
    IF seq = <<>> THEN <<>>
    ELSE IF Head(seq) = x THEN Without(Tail(seq), x)
         ELSE <<Head(seq)>> \o Without(Tail(seq), x)

(***************************************************************************)
(* Types and built-in roles.                                               *)
(***************************************************************************)
Types == {"Individual", "Group", "List", "Role", "Resource", "Location",
          "Other", "Domain", "Tenant"}

ROLE_ADMIN == 1000003
ROLE_TENANT_ADMIN == 1000002
ROLE_USER == 1000001

BuiltinRoles == {ROLE_ADMIN, ROLE_TENANT_ADMIN, ROLE_USER}

NameAdmin == <<"a", "d", "m", "i", "n">>
NameTenantAdmin == <<"t", "e", "n", "a", "n", "t", "-", "a", "d", "m", "i", "n">>
NameUser == <<"u", "s", "e", "r">>

\* Option<T> is the empty set or a singleton
None == {}
Some(x) == {x}
The(o) == CHOOSE x \in o : TRUE

\* PrincipalInfo::new
PrincipalInfo(id, typ, tenant) == [id |-> id, typ |-> typ, tenant |-> tenant]

\* PrincipalInfo::has_tenant_access
HasTenantAccess(info, tenant_id) ==
    tenant_id = None \/ info.tenant = tenant_id

\* PrincipalField::map_internal_role_name
MapInternalRoleName(field, name) ==
    IF field # "Roles" THEN None
    ELSE IF name = NameAdmin THEN Some(ROLE_ADMIN)
    ELSE IF name = NameTenantAdmin THEN Some(ROLE_TENANT_ADMIN)
    ELSE IF name = NameUser THEN Some(ROLE_USER)
    ELSE None

\* PrincipalField::map_internal_roles
MapInternalRoles(field, name) ==
    {PrincipalInfo(role_id, "Role", None) : role_id \in MapInternalRoleName(field, name)}

(***************************************************************************)
(* The store: key families and the atomic batch.                           *)
(***************************************************************************)
EmptyFn == [x \in {} |-> {}]

Put(f, k, v) == [x \in DOMAIN f \cup {k} |-> IF x = k THEN v ELSE f[x]]

Del(f, k) == [x \in DOMAIN f \ {k} |-> f[x]]

Get(f, k) == IF k \in DOMAIN f THEN Some(f[k]) ELSE None

EmptyStore ==
    [principal |-> EmptyFn, nameToId |-> EmptyFn, emailToId |-> EmptyFn,
     memberOf |-> EmptyFn, members |-> {}, usedQuota |-> EmptyFn,
     nextId |-> 1]

\* batch operations
OpSet(fam, k, v) == [op |-> "set", fam |-> fam, k |-> k, v |-> v]
OpClear(fam, k) == [op |-> "clear", fam |-> fam, k |-> k]
OpAdd(k, delta) == [op |-> "add", fam |-> "UsedQuota", k |-> k, v |-> delta]
OpAssert(fam, k, expected) == [op |-> "assert", fam |-> fam, k |-> k, v |-> expected]

\* Store::get_counter: an absent counter reads 0
GetCounter(st, id) == IF id \in DOMAIN st.usedQuota THEN st.usedQuota[id] ELSE 0

ApplyOp(st, o) ==
    IF o.op = "set" THEN
        CASE o.fam = "Principal" -> [st EXCEPT !.principal = Put(@, o.k, o.v)]
          [] o.fam = "NameToId"  -> [st EXCEPT !.nameToId = Put(@, o.k, o.v)]
          [] o.fam = "EmailToId" -> [st EXCEPT !.emailToId = Put(@, o.k, o.v)]
          [] o.fam = "MemberOf"  -> [st EXCEPT !.memberOf = Put(@, o.k, o.v)]
          [] o.fam = "Members"   -> [st EXCEPT !.members = @ \cup {o.k}]
    ELSE IF o.op = "clear" THEN
        CASE o.fam = "Principal" -> [st EXCEPT !.principal = Del(@, o.k)]
          [] o.fam = "NameToId"  -> [st EXCEPT !.nameToId = Del(@, o.k)]
          [] o.fam = "EmailToId" -> [st EXCEPT !.emailToId = Del(@, o.k)]
          [] o.fam = "MemberOf"  -> [st EXCEPT !.memberOf = Del(@, o.k)]
          [] o.fam = "Members"   -> [st EXCEPT !.members = @ \ {o.k}]
          [] o.fam = "UsedQuota" -> [st EXCEPT !.usedQuota = Del(@, o.k)]
    ELSE IF o.op = "add" THEN
        [st EXCEPT !.usedQuota = Put(@, o.k, GetCounter(st, o.k) + o.v)]
    ELSE st

RECURSIVE ApplyOps(_, _)
ApplyOps(st, ops) ==
    IF ops = <<>> THEN st ELSE ApplyOps(ApplyOp(st, Head(ops)), Tail(ops))

\* an AssertValue that also holds on a key that is absent
AssertHoldsIfPresent(st, o) ==
    CASE o.fam = "NameToId"  -> Get(st.nameToId, o.k) = o.v
      [] o.fam = "Principal" -> Get(st.principal, o.k) \in {None, o.v}

\* an AssertValue holds against the store as it is at commit
AssertHolds(st, o) ==
    CASE o.fam = "NameToId"  -> Get(st.nameToId, o.k) = o.v
      [] o.fam = "Principal" -> Get(st.principal, o.k) = o.v

AssertionsHold(st, ops) ==
    \A i \in 1..Len(ops) : ops[i].op = "assert" => AssertHolds(st, ops[i])

\* Store::write: all of the batch or none of it
Write(st, ops) == IF AssertionsHold(st, ops) THEN ApplyOps(st, ops) ELSE st

\* create_document: the id the placeholders of the batch resolve to
CreateDocument(st) == [st EXCEPT !.nextId = @ + 1]

(***************************************************************************)
(* Reads.                                                                  *)
(***************************************************************************)
get_principal_info(st, name) == Get(st.nameToId, name)

get_principal_id(st, name) == {i.id : i \in get_principal_info(st, name)}

\* the ids b with a key MemberOf(id, b), in key order
RECURSIVE SortedSeq(_)
SortedSeq(S) ==
    IF S = {} THEN <<>> ELSE <<Min(S)>> \o SortedSeq(S \ {Min(S)})

get_member_of(st, id) == SortedSeq({k[2] : k \in {x \in DOMAIN st.memberOf : x[1] = id}})

get_members(st, id) == SortedSeq({k[2] : k \in {x \in st.members : x[1] = id}})

\* the recipient predicate of the internal directory
rcpt(st, email) == email \in DOMAIN st.emailToId

is_local_domain(st, domain) ==
    \E i \in get_principal_info(st, domain) : i.typ = "Domain"

\* list_principals(None, typ, tenant_id): the names kept by the scan of NameToId
list_principals(st, typ, tenant_id) ==
    {n \in DOMAIN st.nameToId :
        /\ (typ = None \/ Some(st.nameToId[n].typ) = typ)
        /\ HasTenantAccess(st.nameToId[n], tenant_id)}

\* the characters of the names in the order of their bytes
Bytes ==
    <<"-", "@", "A", "B", "D", "G", "N", "U", "X",
      "a", "b", "c", "d", "e", "g", "h", "i", "k", "m", "n", "r", "s", "t", "u",
      "v", "w", "x", "y">>

Ord(ch) == CHOOSE i \in DOMAIN Bytes : Bytes[i] = ch

\* the order of byte strings, which is the order of the keys of the store
RECURSIVE KeyLess(_, _)
KeyLess(a, b) ==
    IF a = <<>> THEN b # <<>>
    ELSE IF b = <<>> THEN FALSE
    ELSE IF Head(a) = Head(b) THEN KeyLess(Tail(a), Tail(b))
    ELSE Ord(Head(a)) < Ord(Head(b))

\* the ascending sequence keys with the key k put in its place
RECURSIVE InKeyOrder(_, _)
InKeyOrder(k, keys) ==
    IF keys = <<>> THEN <<k>>
    ELSE IF KeyLess(k, Head(keys)) THEN <<k>> \o keys
    ELSE <<Head(keys)>> \o InKeyOrder(k, Tail(keys))

\* Store::iterate over the NameToId keys with IterateParams::ascending
RECURSIVE Ascending(_)
Ascending(keys) ==
    IF keys = {} THEN <<>>
    ELSE LET k == CHOOSE x \in keys : TRUE
         IN  InKeyOrder(k, Ascending(keys \ {k}))

\* the callback of the scans, lines 1254 and 1314-1316 with filter = None
RECURSIVE ScanKeep(_, _, _, _)
ScanKeep(st, keys, typ, tenant_id) ==
    IF keys = <<>> THEN <<>>
    ELSE LET pt == st.nameToId[Head(keys)]
         IN  (IF (typ = None \/ Some(pt.typ) = typ) /\ HasTenantAccess(pt, tenant_id)
              THEN <<Head(keys)>> ELSE <<>>)
             \o ScanKeep(st, Tail(keys), typ, tenant_id)

\* list_principals(None, typ, tenant_id): the Vec of names, lines 1237-1292
list_principals_vec(st, typ, tenant_id) ==
    ScanKeep(st, Ascending(DOMAIN st.nameToId), typ, tenant_id)

\* a count that ignores the type
count_principals_any_type(st, typ, tenant_id) ==
    Len(ScanKeep(st, Ascending(DOMAIN st.nameToId), None, tenant_id))

\* count_principals(None, typ, tenant_id), lines 1294-1327
count_principals(st, typ, tenant_id) ==
    Len(ScanKeep(st, Ascending(DOMAIN st.nameToId), typ, tenant_id))

(***************************************************************************)
(* Results.                                                                *)
(***************************************************************************)
Ok == [kind |-> "Ok", field |-> "", val |-> <<>>]
OkId(id) == [kind |-> "Ok", field |-> "", val |-> <<id>>]
Err(kind, field, val) == [kind |-> kind, field |-> field, val |-> val]

err_missing(field) == Err("MissingParameter", field, <<>>)
err_exists(field, value) == Err("AlreadyExists", field, value)
not_found(value) == Err("NotFound", "", value)
error(details, reason) == Err("Error", details, <<reason>>)
AssertionFailure == Err("AssertionFailure", "", <<>>)
StoreError == Err("StoreError", "", <<>>)
NotSupported == Err("NotSupported", "", <<>>)

InvalidDomainError == error("Invalid principal name", "Principal name must include a valid domain")

(***************************************************************************)
(* Principal records.                                                      *)
(***************************************************************************)
\* the value stored under Principal(id)
Principal(id, typ, name, tenant, emails, description, quota) ==
    [id |-> id, typ |-> typ, name |-> name, tenant |-> tenant,
     emails |-> emails, description |-> description, quota |-> quota]

\* SerializeWithId for Principal
serialize_with_id(p, id) == [p EXCEPT !.id = id]

(***************************************************************************)
(* create_principal.                                                       *)
(***************************************************************************)
\* a Domain of any tenant counts
ValidDomainAnyTenant(st, domain, tenant_id) ==
    \E v \in get_principal_info(st, domain) : v.typ = "Domain"

\* the domain of a name or email resolves to a Domain the tenant may use
ValidDomain(st, domain, tenant_id) ==
    \E v \in get_principal_info(st, domain) :
        v.typ = "Domain" /\ HasTenantAccess(v, tenant_id)

\* the loop over one member field: the infos resolved so far, or the first miss
RECURSIVE MapMemberNames(_, _, _, _, _)
MapMemberNames(st, names, field, expected_type, tenant_id) ==
    IF names = <<>> THEN [err |-> Ok, list |-> <<>>]
    ELSE
      LET name == Head(names)
          kept == {v \in get_principal_info(st, name) :
                      /\ (expected_type = None \/ Some(v.typ) = expected_type)
                      /\ HasTenantAccess(v, tenant_id)}
          info == IF kept # {} THEN kept ELSE MapInternalRoles(field, name)
      IN  IF info = {} THEN [err |-> not_found(name), list |-> <<>>]
          ELSE LET rest == MapMemberNames(st, Tail(names), field, expected_type, tenant_id)
               IN  [err |-> rest.err, list |-> <<The(info)>> \o rest.list]

\* the loop over the emails without the recipient test
RECURSIVE CheckEmailsDomainOnly(_, _, _, _)
CheckEmailsDomainOnly(st, emails, valid_domains, tenant_id) ==
    IF emails = <<>> THEN Ok
    ELSE
      LET email == Head(emails)
      IN  IF HasDomain(email) /\ DomainOf(email) \notin valid_domains
             /\ ~ValidDomain(st, DomainOf(email), tenant_id)
          THEN not_found(DomainOf(email))
          ELSE CheckEmailsDomainOnly(st, Tail(emails),
                                     IF HasDomain(email)
                                     THEN valid_domains \cup {DomainOf(email)}
                                     ELSE valid_domains,
                                     tenant_id)

\* the loop over the emails: the first email that is taken or has no valid domain
RECURSIVE CheckEmails(_, _, _, _)
CheckEmails(st, emails, valid_domains, tenant_id) ==
    IF emails = <<>> THEN Ok
    ELSE
      LET email == Head(emails)
      IN  IF rcpt(st, email) THEN err_exists("Emails", email)
          ELSE IF HasDomain(email) /\ DomainOf(email) \notin valid_domains
                  /\ ~ValidDomain(st, DomainOf(email), tenant_id)
               THEN not_found(DomainOf(email))
          ELSE CheckEmails(st, Tail(emails),
                           IF HasDomain(email)
                           THEN valid_domains \cup {DomainOf(email)}
                           ELSE valid_domains,
                           tenant_id)

\* create_principal up to its batch: an error, or what the batch is built from
CreateValidate(st, inp, tenant_id) ==
    LET name == ToLower(inp.name)
        valid_domains ==
            IF tenant_id # None /\ HasDomain(name)
               /\ ValidDomain(st, DomainOf(name), tenant_id)
            THEN {DomainOf(name)} ELSE {}
        mMembers  == MapMemberNames(st, inp.members, "Members", None, tenant_id)
        mMemberOf == MapMemberNames(st, inp.memberOf, "MemberOf", Some("Group"), tenant_id)
        mLists    == MapMemberNames(st, inp.lists, "Lists", Some("List"), tenant_id)
        mRoles    == MapMemberNames(st, inp.roles, "Roles", Some("Role"), tenant_id)
        emails    == [i \in 1..Len(inp.emails) |-> ToLower(inp.emails[i])]
        mEmails   == CheckEmails(st, emails, valid_domains, tenant_id)
        tenantInfo == {v \in UNION {get_principal_info(st, tn) : tn \in inp.tenant} :
                          v.typ = "Tenant"}
        failed(e) == [err |-> e, principal |-> <<>>, tenant |-> None,
                      member_of |-> <<>>, members |-> <<>>]
    IN  IF name = <<>> THEN failed(err_missing("Name"))
        ELSE IF tenant_id # None /\ valid_domains = {} THEN failed(InvalidDomainError)
        ELSE IF get_principal_id(st, name) # {} THEN failed(err_exists("Name", name))
        ELSE IF mMembers.err # Ok THEN failed(mMembers.err)
        ELSE IF mMemberOf.err # Ok THEN failed(mMemberOf.err)
        ELSE IF mLists.err # Ok THEN failed(mLists.err)
        ELSE IF mRoles.err # Ok THEN failed(mRoles.err)
        ELSE IF mEmails # Ok THEN failed(mEmails)
        ELSE IF tenant_id = None /\ inp.tenant # None /\ tenantInfo = {}
             THEN failed(not_found(The(inp.tenant)))
        ELSE [err |-> Ok,
              \* the Tenant field is set from the parameter only; a tenant
              \* named in the input is taken out of the record
              principal |-> Principal(0, inp.typ, name, tenant_id, emails,
                                      inp.description, None),
              tenant |-> IF tenant_id # None THEN tenant_id
                         ELSE {v.id : v \in tenantInfo},
              member_of |-> mMemberOf.list \o mLists.list \o mRoles.list,
              members |-> mMembers.list]

\* an edge written without its reverse
EdgeSetForwardOnly(a, b, typ) == <<OpSet("MemberOf", <<a, b>>, typ)>>

\* the forward and reverse edge of "a is a member of b"
EdgeSet(a, b, typ) == <<OpSet("MemberOf", <<a, b>>, typ), OpSet("Members", <<b, a>>, {})>>

EdgeClear(a, b) == <<OpClear("MemberOf", <<a, b>>), OpClear("Members", <<b, a>>)>>

RECURSIVE Flatten(_)
Flatten(seqs) == IF seqs = <<>> THEN <<>> ELSE Head(seqs) \o Flatten(Tail(seqs))

\* the membership edges of a new principal
CreateMemberOfOps(member_of, id) ==
    Flatten([i \in 1..Len(member_of) |-> EdgeSet(id, member_of[i].id, member_of[i].typ)])

CreateMembersOps(members, id) ==
    Flatten([i \in 1..Len(members) |-> EdgeSet(members[i].id, id, members[i].typ)])

\* the writes of create_principal with Dynamic(0) resolved to id, lines 289-348
CreateWrites(v, id) ==
    <<OpSet("Principal", id, serialize_with_id(v.principal, id)),
      OpSet("NameToId", v.principal.name, PrincipalInfo(id, v.principal.typ, v.tenant))>>
    \o [i \in 1..Len(v.principal.emails) |->
          OpSet("EmailToId", v.principal.emails[i], PrincipalInfo(id, v.principal.typ, None))]
    \o CreateMemberOfOps(v.member_of, id)
    \o CreateMembersOps(v.members, id)

\* a create_principal that does not assert the name absent
CreateBatchUnguarded(v, id) == CreateWrites(v, id)

\* the batch of create_principal, lines 275-348
CreateBatch(v, id) ==
    <<OpAssert("NameToId", v.principal.name, None)>> \o CreateWrites(v, id)

(***************************************************************************)
(* Tasks.                                                                  *)
(***************************************************************************)
Idle == [op |-> "idle", pc |-> "idle"]

\* a task slot takes a new call when it is free; max bounds the calls made
Begin(t, max) ==
    /\ task[t].pc \in {"idle", "done"}
    /\ started < max
    /\ started' = started + 1

\* create_principal, lines 139-273: the validation reads
StartCreate(t, inp, tenant_id, max) ==
    /\ Begin(t, max)
    /\ LET v == CreateValidate(store, inp, tenant_id)
       IN  task' = [task EXCEPT ![t] =
                [op |-> "create", pc |-> IF v.err = Ok THEN "commit" ELSE "done",
                 inp |-> inp, tenant_id |-> tenant_id, v |-> v, result |-> v.err]]
    /\ UNCHANGED store

\* create_principal, lines 275-353: the batch and its commit
CommitCreate(t) ==
    /\ task[t].op = "create" /\ task[t].pc = "commit"
    /\ LET ops == CreateBatch(task[t].v, store.nextId)
       IN  IF AssertionsHold(store, ops)
           THEN /\ store' = CreateDocument(ApplyOps(store, ops))
                /\ task' = [task EXCEPT ![t].pc = "done",
                                        ![t].result = OkId(store.nextId)]
           ELSE /\ store' = store
                /\ task' = [task EXCEPT ![t].pc = "done",
                                        ![t].result = AssertionFailure]
    /\ UNCHANGED started

(***************************************************************************)
(* get_or_create_principal_id.                                             *)
(***************************************************************************)
\* the writes of get_or_create_principal_id, lines 109-117
GocWrites(name, typ, id) ==
    <<OpSet("NameToId", name, PrincipalInfo(id, typ, None)),
      OpSet("Principal", id,
            serialize_with_id(Principal(0, typ, name, None, <<>>, <<>>, None), id))>>

\* a get_or_create_principal_id that does not assert the name absent
GocBatchUnguarded(name, typ, id) == GocWrites(name, typ, id)

\* the batch of get_or_create_principal_id with Dynamic(0) resolved to id
GocBatch(name, typ, id) ==
    <<OpAssert("NameToId", name, None)>> \o GocWrites(name, typ, id)

\* a call that looks the name up as it is given
StartGocAsGiven(t, name, typ, max) ==
    /\ Begin(t, max)
    /\ task' = [task EXCEPT ![t] =
            [op |-> "goc", pc |-> "read", name |-> name, typ |-> typ,
             try_count |-> 0, writes |-> 0, result |-> Ok]]
    /\ UNCHANGED store

\* lines 86-88
StartGoc(t, name, typ, max) ==
    /\ Begin(t, max)
    /\ task' = [task EXCEPT ![t] =
            [op |-> "goc", pc |-> "read", name |-> ToLower(name), typ |-> typ,
             try_count |-> 0, writes |-> 0, result |-> Ok]]
    /\ UNCHANGED store

\* lines 91-98: try to obtain the id
GocRead(t) ==
    /\ task[t].op = "goc" /\ task[t].pc = "read"
    /\ LET found == get_principal_id(store, task[t].name)
       IN  task' = [task EXCEPT ![t].pc = IF found # {} THEN "done" ELSE "commit",
                                ![t].result = IF found # {} THEN OkId(The(found)) ELSE Ok]
    /\ UNCHANGED <<store, started>>

\* a loop that retries after any error
GocRetriesAnyError(err, try_count) == try_count < 3

\* what the loop does with an error of the write, lines 127-134
GocRetries(err, try_count) == err = AssertionFailure /\ try_count < 3

\* lines 100-135: write the principal id
GocCommit(t) ==
    /\ task[t].op = "goc" /\ task[t].pc = "commit"
    /\ LET ops == GocBatch(task[t].name, task[t].typ, store.nextId)
       IN  IF AssertionsHold(store, ops)
           THEN /\ store' = CreateDocument(ApplyOps(store, ops))
                /\ task' = [task EXCEPT ![t].pc = "done",
                                        ![t].writes = @ + 1,
                                        ![t].result = OkId(store.nextId)]
           ELSE /\ store' = store
                /\ task' = [task EXCEPT
                      ![t].pc = IF GocRetries(AssertionFailure, task[t].try_count)
                                THEN "read" ELSE "done",
                      ![t].try_count = IF GocRetries(AssertionFailure, @)
                                       THEN @ + 1 ELSE @,
                      ![t].writes = @ + 1,
                      ![t].result = IF GocRetries(AssertionFailure, task[t].try_count)
                                    THEN Ok ELSE AssertionFailure]
    /\ UNCHANGED started

\* lines 119-134: the store fails the write with an error that is no
\* assertion failure
GocWriteFails(t) ==
    /\ task[t].op = "goc" /\ task[t].pc = "commit"
    /\ task' = [task EXCEPT
          ![t].pc = IF GocRetries(StoreError, task[t].try_count) THEN "read" ELSE "done",
          ![t].writes = @ + 1,
          ![t].result = StoreError]
    /\ UNCHANGED <<store, started>>

(***************************************************************************)
(* delete_principal.                                                       *)
(***************************************************************************)
ByName(name) == [by |-> "Name", name |-> name, id |-> 0]
ById(id) == [by |-> "Id", name |-> <<>>, id |-> id]

\* QueryBy to the principal id, lines 357-365 and 496-504
ResolveId(st, by) ==
    IF by.by = "Name" THEN get_principal_id(st, by.name) ELSE Some(by.id)

ExternalCalls == <<"blob_hash_unlink_account", "acl_revoke_all", "purge_account">>

\* lines 355-416: resolve, load, and the check by type
DeleteLoad(st, by) ==
    LET ids == ResolveId(st, by)
        principal_id == The(ids)
        loaded == Get(st.principal, principal_id)
        principal == The(loaded)
        quota == GetCounter(st, principal_id)
        failed(e) == [err |-> e, principal_id |-> 0, principal |-> <<>>, batch |-> <<>>]
    IN  IF ids = {} THEN failed(not_found(by.name))
        ELSE IF loaded = {} THEN failed(not_found(<<principal_id>>))
        ELSE IF principal.typ = "Tenant"
                /\ list_principals(st, None, Some(principal.id)) # {}
             THEN failed(error("Tenant has members", "Tenant must have no members to be deleted"))
        ELSE [err |-> Ok, principal_id |-> principal_id, principal |-> principal,
              batch |-> IF principal.typ \in {"Individual", "Group"}
                           /\ principal.tenant # None /\ quota > 0
                        THEN <<OpAdd(The(principal.tenant), -quota)>>
                        ELSE <<>>]

StartDelete(t, by, max) ==
    /\ Begin(t, max)
    /\ LET l == DeleteLoad(store, by)
       IN  task' = [task EXCEPT ![t] =
                [op |-> "delete", pc |-> IF l.err = Ok THEN "purge" ELSE "done",
                 by |-> by, principal_id |-> l.principal_id, principal |-> l.principal,
                 batch |-> l.batch, ext |-> <<>>, result |-> l.err]]
    /\ UNCHANGED store

\* lines 433-481: the clears of the principal, its emails and the edges read now
DeleteBatch(st, principal_id, principal) ==
    LET member_of == get_member_of(st, principal_id)
        members == get_members(st, principal_id)
    IN  <<OpClear("NameToId", principal.name),
          OpClear("Principal", principal_id),
          OpClear("UsedQuota", principal_id)>>
        \o [i \in 1..Len(principal.emails) |-> OpClear("EmailToId", principal.emails[i])]
        \o Flatten([i \in 1..Len(member_of) |-> EdgeClear(principal_id, member_of[i])])
        \o Flatten([i \in 1..Len(members) |-> EdgeClear(members[i], principal_id)])

\* a delete that goes on to its batch after a failed external call
DeletePurgeIgnoresFailure(t, failed) ==
    /\ task[t].op = "delete" /\ task[t].pc = "purge"
    /\ task' = [task EXCEPT
            ![t].pc = "commit",
            ![t].ext = IF failed = 0 THEN ExternalCalls
                       ELSE SubSeq(ExternalCalls, 1, failed),
            ![t].batch = @ \o DeleteBatch(store, task[t].principal_id, task[t].principal)]
    /\ UNCHANGED <<store, started>>

\* lines 418-481: the first failed external calls fail the delete (failed = 0:
\* none fails); then the edges are read and the batch is complete
DeletePurge(t, failed) ==
    /\ task[t].op = "delete" /\ task[t].pc = "purge"
    /\ IF failed = 0
       THEN task' = [task EXCEPT
                ![t].pc = "commit",
                ![t].ext = ExternalCalls,
                ![t].batch = @ \o DeleteBatch(store, task[t].principal_id, task[t].principal)]
       ELSE task' = [task EXCEPT
                ![t].pc = "done",
                ![t].ext = SubSeq(ExternalCalls, 1, failed),
                ![t].result = StoreError]
    /\ UNCHANGED <<store, started>>

\* lines 483-487
CommitDelete(t) ==
    /\ task[t].op = "delete" /\ task[t].pc = "commit"
    /\ store' = Write(store, task[t].batch)
    /\ task' = [task EXCEPT ![t].pc = "done", ![t].result = Ok]
    /\ UNCHANGED started

(***************************************************************************)
(* update_principal.                                                       *)
(***************************************************************************)
Change(action, field, shape, val) ==
    [action |-> action, field |-> field, shape |-> shape, val |-> val]

MembershipFields == {"MemberOf", "Members", "Lists", "Roles"}

\* lines 570-584
AllowedMemberTypes(typ) ==
    CASE typ = "Group"    -> {"Individual", "Group"}
      [] typ = "Resource" -> {"Resource"}
      [] typ = "Location" -> {"Location", "Resource", "Individual", "Group", "Other"}
      [] typ = "List"     -> {"Individual", "Group"}
      [] typ = "Role"     -> {"Role"}
      [] OTHER            -> {}

\* lines 888-893
ExpectedType(field) ==
    CASE field = "MemberOf" -> "Group"
      [] field = "Lists"    -> "List"
      [] field = "Roles"    -> "Role"

MemberTypeError(field) == error("Invalid value", field)

\* a lock armed by every update that has a change
UpdatesPrincipalAlways(changes) == changes # <<>>

\* lines 534-543
UpdatesPrincipal(changes) ==
    /\ changes # <<>>
    /\ ~(\A i \in 1..Len(changes) : changes[i].field \in MembershipFields)

\* lines 496-568: resolve, load the hashed principal and its edges, arm the lock
UpdateLoad(st, by, changes, tenant_id) ==
    LET ids == ResolveId(st, by)
        principal_id == The(ids)
        loaded == Get(st.principal, principal_id)
        principal == The(loaded)
        quota == GetCounter(st, principal_id)
        failed(e) == [err |-> e]
    IN  IF ids = {} THEN failed(not_found(by.name))
        ELSE IF loaded = {} THEN failed(not_found(<<principal_id>>))
        ELSE [err |-> Ok,
              principal_id |-> principal_id,
              loaded |-> principal,
              inner |-> principal,
              member_of |-> get_member_of(st, principal_id),
              members |-> get_members(st, principal_id),
              pinfo_name |-> PrincipalInfo(principal_id, principal.typ, principal.tenant),
              pinfo_email |-> PrincipalInfo(principal_id, principal.typ, None),
              update_principal |-> UpdatesPrincipal(changes),
              batch |-> IF UpdatesPrincipal(changes)
                        THEN <<OpAssert("Principal", principal_id, Some(principal))>>
                        ELSE <<>>,
              used_quota |-> IF tenant_id = None
                                /\ (\E i \in 1..Len(changes) : changes[i].field = "Tenant")
                                /\ quota > 0
                             THEN Some(quota) ELSE None,
              valid_domains |-> {}]

Fail(L, e) == [L EXCEPT !.err = e]

\* Set Name that compares the current name with the name as given
ChangeSetNameAsGiven(st, L, value, tenant_id) ==
    LET new_name == ToLower(value)
        valid_domains ==
            IF tenant_id # None /\ HasDomain(new_name)
               /\ ValidDomain(st, DomainOf(new_name), tenant_id)
            THEN L.valid_domains \cup {DomainOf(new_name)}
            ELSE L.valid_domains
    IN  IF L.inner.name = value THEN L
        ELSE IF tenant_id # None /\ valid_domains = {} THEN Fail(L, InvalidDomainError)
        ELSE IF get_principal_id(st, new_name) # {} THEN Fail(L, err_exists("Name", new_name))
        ELSE [L EXCEPT
                !.valid_domains = valid_domains,
                !.batch = @ \o <<OpClear("NameToId", L.inner.name),
                                 OpSet("NameToId", new_name, L.pinfo_name)>>,
                !.inner.name = new_name]

\* (Set, Name, String), lines 590-637
ChangeSetName(st, L, value, tenant_id) ==
    LET new_name == ToLower(value)
        valid_domains ==
            IF tenant_id # None /\ HasDomain(new_name)
               /\ ValidDomain(st, DomainOf(new_name), tenant_id)
            THEN L.valid_domains \cup {DomainOf(new_name)}
            ELSE L.valid_domains
    IN  IF L.inner.name = new_name THEN L
        ELSE IF tenant_id # None /\ valid_domains = {} THEN Fail(L, InvalidDomainError)
        ELSE IF get_principal_id(st, new_name) # {} THEN Fail(L, err_exists("Name", new_name))
        ELSE [L EXCEPT
                !.valid_domains = valid_domains,
                !.batch = @ \o <<OpClear("NameToId", L.inner.name),
                                 OpSet("NameToId", new_name, L.pinfo_name)>>,
                !.inner.name = new_name]

\* a Set Tenant that leaves the UsedQuota counters of the tenants alone
ChangeSetTenantKeepsQuota(st, L, tenant_name) ==
    LET found == get_principal_info(st, tenant_name)
        tenant_info == The(found)
        written(tenant) ==
            LET pinfo_name == PrincipalInfo(L.principal_id, L.inner.typ, tenant)
            IN  [L EXCEPT
                    !.inner.tenant = tenant,
                    !.pinfo_name = pinfo_name,
                    !.batch = @ \o <<OpSet("NameToId", L.inner.name, pinfo_name)>>]
    IN  IF tenant_name # <<>> THEN
            IF found = {} THEN Fail(L, not_found(tenant_name))
            ELSE IF tenant_info.typ # "Tenant" THEN Fail(L, error("Not a tenant", "is not a tenant"))
            ELSE IF L.inner.tenant # None /\ L.inner.tenant # Some(tenant_info.id)
                 THEN written(Some(tenant_info.id))
            ELSE L
        ELSE IF L.inner.tenant # None THEN written(None)
        ELSE L

\* (Set, Tenant, String) if tenant_id.is_none(), lines 638-695
ChangeSetTenant(st, L, tenant_name) ==
    LET found == get_principal_info(st, tenant_name)
        tenant_info == The(found)
        quotaMove == IF L.used_quota = None THEN <<>>
                     ELSE <<OpAdd(The(L.inner.tenant), -The(L.used_quota)),
                            OpAdd(tenant_info.id, The(L.used_quota))>>
        quotaDrop == IF L.used_quota = None THEN <<>>
                     ELSE <<OpAdd(The(L.inner.tenant), -The(L.used_quota))>>
        written(tenant, ops) ==
            LET pinfo_name == PrincipalInfo(L.principal_id, L.inner.typ, tenant)
            IN  [L EXCEPT
                    !.inner.tenant = tenant,
                    !.pinfo_name = pinfo_name,
                    !.batch = @ \o ops \o <<OpSet("NameToId", L.inner.name, pinfo_name)>>]
    IN  IF tenant_name # <<>> THEN
            IF found = {} THEN Fail(L, not_found(tenant_name))
            ELSE IF tenant_info.typ # "Tenant" THEN Fail(L, error("Not a tenant", "is not a tenant"))
            ELSE IF L.inner.tenant # None /\ L.inner.tenant # Some(tenant_info.id)
                 THEN written(Some(tenant_info.id), quotaMove)
            ELSE L
        ELSE IF L.inner.tenant # None THEN written(None, quotaDrop)
        ELSE L

\* (Set, Description, String), lines 739-751
ChangeSetDescription(L, description) == [L EXCEPT !.inner.description = description]

\* every type may hold a quota
QuotaTypesAny == Types

\* lines 753-756, 761-764
QuotaTypes == {"Individual", "Group", "Tenant"}

\* Type::Other as usize: the position of Other among the types
TypeOther == 6

\* the emails of a Set or AddItem that the principal does not hold: the first
\* that is taken or not local, else the index writes; lines 789-810, 828-849
RECURSIVE ClaimEmails(_, _, _)
ClaimEmails(st, L, emails) ==
    IF emails = <<>> THEN [err |-> Ok, ops |-> <<>>]
    ELSE
      LET email == Head(emails)
          rest == ClaimEmails(st, L, Tail(emails))
      IN  IF Contains(L.inner.emails, email) THEN rest
          ELSE IF rcpt(st, email) THEN [err |-> err_exists("Emails", email), ops |-> <<>>]
          ELSE IF HasDomain(email) /\ ~is_local_domain(st, DomainOf(email))
               THEN [err |-> not_found(DomainOf(email)), ops |-> <<>>]
          ELSE [err |-> rest.err,
                ops |-> <<OpSet("EmailToId", email, L.pinfo_email)>> \o rest.ops]

\* the clears of the held emails that a Set drops, lines 812-818
RECURSIVE DropEmails(_, _)
DropEmails(held, emails) ==
    IF held = <<>> THEN <<>>
    ELSE (IF Contains(emails, Head(held)) THEN <<>>
          ELSE <<OpClear("EmailToId", Head(held))>>)
         \o DropEmails(Tail(held), emails)

\* (Set, Emails, StringList), lines 779-821
ChangeSetEmails(st, L, value) ==
    LET emails == [i \in 1..Len(value) |-> ToLower(value[i])]
        claim == ClaimEmails(st, L, emails)
    IN  IF claim.err # Ok THEN Fail(L, claim.err)
        ELSE [L EXCEPT
                !.batch = @ \o claim.ops \o DropEmails(L.inner.emails, emails),
                !.inner.emails = emails]

\* (AddItem, Emails, String), lines 822-852
ChangeAddEmail(st, L, value) ==
    LET email == ToLower(value)
        claim == ClaimEmails(st, L, <<email>>)
    IN  IF Contains(L.inner.emails, email) THEN L
        ELSE IF claim.err # Ok THEN Fail(L, claim.err)
        ELSE [L EXCEPT
                !.batch = @ \o claim.ops,
                !.inner.emails = Append(@, email)]

\* (RemoveItem, Emails, String), lines 853-870
ChangeRemoveEmail(L, value) ==
    LET email == ToLower(value)
    IN  IF Contains(L.inner.emails, email)
        THEN [L EXCEPT
                !.inner.emails = Without(@, email),
                !.batch = @ \o <<OpClear("EmailToId", email)>>]
        ELSE L

\* the resolution of a name of MemberOf, Lists or Roles, lines 880-886, 946-952
ResolveMemberOf(st, field, member, tenant_id) ==
    LET kept == {v \in get_principal_info(st, member) : HasTenantAccess(v, tenant_id)}
    IN  IF kept # {} THEN kept ELSE MapInternalRoles(field, member)

\* the resolution of a name of Members, lines 1027-1032, 1089-1094
ResolveMember(st, member, tenant_id) ==
    {v \in get_principal_info(st, member) : HasTenantAccess(v, tenant_id)}

\* the loop of (Set, MemberOf | Lists | Roles), lines 879-924: the edges to
\* add and the new list, or the first name that fails
RECURSIVE SetMemberOfLoop(_, _, _, _, _)
SetMemberOfLoop(st, L, field, names, tenant_id) ==
    IF names = <<>> THEN [err |-> Ok, ops |-> <<>>, list |-> <<>>]
    ELSE
      LET member == Head(names)
          found == ResolveMemberOf(st, field, member, tenant_id)
          member_info == The(found)
          rest == SetMemberOfLoop(st, L, field, Tail(names), tenant_id)
      IN  IF found = {} THEN [err |-> not_found(member), ops |-> <<>>, list |-> <<>>]
          ELSE IF member_info.typ # ExpectedType(field)
               THEN [err |-> MemberTypeError(field), ops |-> <<>>, list |-> <<>>]
          ELSE [err |-> rest.err,
                ops |-> (IF Contains(L.member_of, member_info.id) THEN <<>>
                         ELSE EdgeSet(L.principal_id, member_info.id, member_info.typ))
                        \o rest.ops,
                list |-> <<member_info.id>> \o rest.list]

\* lines 926-937
RECURSIVE ClearMemberOf(_, _, _)
ClearMemberOf(principal_id, member_of, new_member_of) ==
    IF member_of = <<>> THEN <<>>
    ELSE (IF Contains(new_member_of, Head(member_of)) THEN <<>>
          ELSE EdgeClear(principal_id, Head(member_of)))
         \o ClearMemberOf(principal_id, Tail(member_of), new_member_of)

\* (Set, MemberOf | Lists | Roles, StringList), lines 872-940
ChangeSetMemberOf(st, L, field, value, tenant_id) ==
    LET loop == SetMemberOfLoop(st, L, field, value, tenant_id)
    IN  IF loop.err # Ok THEN Fail(L, loop.err)
        ELSE [L EXCEPT
                !.batch = @ \o loop.ops
                            \o ClearMemberOf(L.principal_id, L.member_of, loop.list),
                !.member_of = loop.list]

\* AddItem that writes the edge without looking at the edges held
ChangeAddMemberOfAlways(st, L, field, member, tenant_id) ==
    LET found == ResolveMemberOf(st, field, member, tenant_id)
        member_info == The(found)
    IN  IF found = {} THEN Fail(L, not_found(member))
        ELSE IF member_info.typ # ExpectedType(field) THEN Fail(L, MemberTypeError(field))
        ELSE [L EXCEPT
                !.batch = @ \o EdgeSet(L.principal_id, member_info.id, member_info.typ),
                !.member_of = Append(@, member_info.id)]

\* (AddItem, MemberOf | Lists | Roles, String), lines 941-991
ChangeAddMemberOf(st, L, field, member, tenant_id) ==
    LET found == ResolveMemberOf(st, field, member, tenant_id)
        member_info == The(found)
    IN  IF found = {} THEN Fail(L, not_found(member))
        ELSE IF Contains(L.member_of, member_info.id) THEN L
        ELSE IF member_info.typ # ExpectedType(field) THEN Fail(L, MemberTypeError(field))
        ELSE [L EXCEPT
                !.batch = @ \o EdgeSet(L.principal_id, member_info.id, member_info.typ),
                !.member_of = Append(@, member_info.id)]

\* (RemoveItem, MemberOf | Lists | Roles, String), lines 992-1017
ChangeRemoveMemberOf(st, L, field, member) ==
    LET ids == get_principal_id(st, member)
        found == IF ids # {} THEN ids ELSE MapInternalRoleName(field, member)
        member_id == The(found)
    IN  IF found # {} /\ Contains(L.member_of, member_id)
        THEN [L EXCEPT
                !.batch = @ \o EdgeClear(L.principal_id, member_id),
                !.member_of = RemoveFirst(@, member_id)]
        ELSE L

\* the loop of (Set, Members), lines 1026-1067
RECURSIVE SetMembersLoop(_, _, _, _)
SetMembersLoop(st, L, names, tenant_id) ==
    IF names = <<>> THEN [err |-> Ok, ops |-> <<>>, list |-> <<>>]
    ELSE
      LET member == Head(names)
          found == ResolveMember(st, member, tenant_id)
          member_info == The(found)
          rest == SetMembersLoop(st, L, Tail(names), tenant_id)
      IN  IF found = {} THEN [err |-> not_found(member), ops |-> <<>>, list |-> <<>>]
          ELSE IF member_info.typ \notin AllowedMemberTypes(L.inner.typ)
               THEN [err |-> MemberTypeError("Members"), ops |-> <<>>, list |-> <<>>]
          ELSE [err |-> rest.err,
                ops |-> (IF Contains(L.members, member_info.id) THEN <<>>
                         ELSE EdgeSet(member_info.id, L.principal_id, member_info.typ))
                        \o rest.ops,
                list |-> <<member_info.id>> \o rest.list]

\* lines 1069-1080
RECURSIVE ClearMembers(_, _, _)
ClearMembers(principal_id, members, new_members) ==
    IF members = <<>> THEN <<>>
    ELSE (IF Contains(new_members, Head(members)) THEN <<>>
          ELSE EdgeClear(Head(members), principal_id))
         \o ClearMembers(principal_id, Tail(members), new_members)

\* (Set, Members, StringList), lines 1019-1083
ChangeSetMembers(st, L, value, tenant_id) ==
    LET loop == SetMembersLoop(st, L, value, tenant_id)
    IN  IF loop.err # Ok THEN Fail(L, loop.err)
        ELSE [L EXCEPT
                !.batch = @ \o loop.ops
                            \o ClearMembers(L.principal_id, L.members, loop.list),
                !.members = loop.list]

\* (AddItem, Members, String), lines 1084-1128
ChangeAddMember(st, L, member, tenant_id) ==
    LET found == ResolveMember(st, member, tenant_id)
        member_info == The(found)
    IN  IF found = {} THEN Fail(L, not_found(member))
        ELSE IF Contains(L.members, member_info.id) THEN L
        ELSE IF member_info.typ \notin AllowedMemberTypes(L.inner.typ)
             THEN Fail(L, MemberTypeError("Members"))
        ELSE [L EXCEPT
                !.batch = @ \o EdgeSet(member_info.id, L.principal_id, member_info.typ),
                !.members = Append(@, member_info.id)]

\* (RemoveItem, Members, String), lines 1129-1151
ChangeRemoveMember(st, L, member) ==
    LET found == get_principal_id(st, member)
        member_id == The(found)
    IN  IF found # {} /\ Contains(L.members, member_id)
        THEN [L EXCEPT
                !.batch = @ \o EdgeClear(member_id, L.principal_id),
                !.members = RemoveFirst(@, member_id)]
        ELSE L

MemberOfFields == {"MemberOf", "Lists", "Roles"}

\* the match on (action, field, value), lines 589-1218
\* The modelled Principal carries no secrets or permission lists: the changes
\* of lines 696-738 and 1153-1213 are not among the inputs of any
\* specification below.
ProcessChange(st, L, c, tenant_id) ==
    LET is(action, field, shape) ==
            c.action = action /\ c.field = field /\ c.shape = shape
    IN  CASE is("Set", "Name", "String") -> ChangeSetName(st, L, c.val, tenant_id)
          [] is("Set", "Tenant", "String") /\ tenant_id = None ->
                ChangeSetTenant(st, L, c.val)
          [] is("Set", "Description", "String") -> ChangeSetDescription(L, c.val)
          [] is("Set", "Quota", "Integer") /\ L.inner.typ \in QuotaTypes ->
                [L EXCEPT !.inner.quota = Some(c.val)]
          [] is("Set", "Quota", "String") /\ L.inner.typ \in QuotaTypes /\ c.val = <<>> ->
                [L EXCEPT !.inner.quota = None]
          [] is("Set", "Quota", "IntegerList") /\ L.inner.typ = "Tenant"
             /\ Len(c.val) <= TypeOther + 1 ->
                [L EXCEPT !.inner.quota = Some(c.val)]
          [] is("Set", "Emails", "StringList") -> ChangeSetEmails(st, L, c.val)
          [] is("AddItem", "Emails", "String") -> ChangeAddEmail(st, L, c.val)
          [] is("RemoveItem", "Emails", "String") -> ChangeRemoveEmail(L, c.val)
          [] c.action = "Set" /\ c.field \in MemberOfFields /\ c.shape = "StringList" ->
                ChangeSetMemberOf(st, L, c.field, c.val, tenant_id)
          [] c.action = "AddItem" /\ c.field \in MemberOfFields /\ c.shape = "String" ->
                ChangeAddMemberOf(st, L, c.field, c.val, tenant_id)
          [] c.action = "RemoveItem" /\ c.field \in MemberOfFields /\ c.shape = "String" ->
                ChangeRemoveMemberOf(st, L, c.field, c.val)
          [] is("Set", "Members", "StringList") -> ChangeSetMembers(st, L, c.val, tenant_id)
          [] is("AddItem", "Members", "String") -> ChangeAddMember(st, L, c.val, tenant_id)
          [] is("RemoveItem", "Members", "String") -> ChangeRemoveMember(st, L, c.val)
          [] OTHER -> Fail(L, NotSupported)

\* a write-back that is not guarded by the assertion on the loaded value
UpdateBatchUnlocked(L) ==
    IF L.update_principal
    THEN Tail(L.batch) \o <<OpSet("Principal", L.principal_id, L.inner)>>
    ELSE L.batch

\* lines 1221-1228: the write-back of the principal when the lock is armed
UpdateBatch(L) ==
    IF L.update_principal
    THEN L.batch \o <<OpSet("Principal", L.principal_id, L.inner)>>
    ELSE L.batch

\* update_principal, lines 490-568
StartUpdate(t, by, changes, tenant_id, max) ==
    /\ Begin(t, max)
    /\ LET L == UpdateLoad(store, by, changes, tenant_id)
       IN  task' = [task EXCEPT ![t] =
                [op |-> "update",
                 pc |-> IF L.err # Ok THEN "done"
                        ELSE IF changes = <<>> THEN "commit" ELSE "change",
                 by |-> by, changes |-> changes, tenant_id |-> tenant_id,
                 next |-> 1, L |-> L, result |-> L.err]]
    /\ UNCHANGED store

\* one change of the list, its operations written to the store at once
UpdateChangeEager(t) ==
    /\ task[t].op = "update" /\ task[t].pc = "change"
    /\ LET L == ProcessChange(store, task[t].L, task[t].changes[task[t].next],
                              task[t].tenant_id)
       IN  /\ task' = [task EXCEPT
                ![t].L = L,
                ![t].result = L.err,
                ![t].next = @ + 1,
                ![t].pc = IF L.err # Ok THEN "done"
                          ELSE IF task[t].next = Len(task[t].changes) THEN "commit"
                          ELSE "change"]
           /\ store' = IF L.err # Ok THEN store
                       ELSE ApplyOps(store, SubSeq(L.batch, Len(task[t].L.batch) + 1,
                                                   Len(L.batch)))
    /\ UNCHANGED started

\* update_principal, lines 588-1219: one change of the list
UpdateChange(t) ==
    /\ task[t].op = "update" /\ task[t].pc = "change"
    /\ LET L == ProcessChange(store, task[t].L, task[t].changes[task[t].next],
                              task[t].tenant_id)
       IN  task' = [task EXCEPT
                ![t].L = L,
                ![t].result = L.err,
                ![t].next = @ + 1,
                ![t].pc = IF L.err # Ok THEN "done"
                          ELSE IF task[t].next = Len(task[t].changes) THEN "commit"
                          ELSE "change"]
    /\ UNCHANGED <<store, started>>

\* update_principal, lines 1221-1234
CommitUpdate(t) ==
    /\ task[t].op = "update" /\ task[t].pc = "commit"
    /\ LET ops == UpdateBatch(task[t].L)
       IN  IF AssertionsHold(store, ops)
           THEN /\ store' = ApplyOps(store, ops)
                /\ task' = [task EXCEPT ![t].pc = "done", ![t].result = Ok]
           ELSE /\ store' = store
                /\ task' = [task EXCEPT ![t].pc = "done", ![t].result = AssertionFailure]
    /\ UNCHANGED started

(***************************************************************************)
(* Inputs and initial directories.                                         *)
(***************************************************************************)
\* the Principal handed to create_principal
NewPrincipal(typ, name) ==
    [typ |-> typ, name |-> name, emails |-> <<>>, tenant |-> None,
     members |-> <<>>, memberOf |-> <<>>, lists |-> <<>>, roles |-> <<>>,
     description |-> <<>>]

Call(inp, tenant_id) == [inp |-> inp, tenant_id |-> tenant_id]

\* the store after the create_principal calls of inputs, one after the other
RECURSIVE Created(_, _)
Created(st, inputs) ==
    IF inputs = <<>> THEN st
    ELSE LET v == CreateValidate(st, Head(inputs).inp, Head(inputs).tenant_id)
         IN  Created(CreateDocument(ApplyOps(st, CreateBatch(v, st.nextId))),
                     Tail(inputs))

IdOf(st, name) == The(get_principal_id(st, name))

NameD == <<"d">>
NameG == <<"g">>
NameT == <<"t">>
NameU == <<"u", "@", "d">>
NameA == <<"a", "@", "d">>
NameB == <<"b", "@", "d">>
NameX == <<"x">>

\* a domain, a group and an individual with one address
DirectoryCore ==
    Created(EmptyStore,
            <<Call(NewPrincipal("Domain", NameD), None),
              Call(NewPrincipal("Group", NameG), None),
              Call([NewPrincipal("Individual", NameU) EXCEPT !.emails = <<NameU>>], None)>>)

IdG == IdOf(DirectoryCore, NameG)
IdU == IdOf(DirectoryCore, NameU)

CreateInputsCore ==
    {[NewPrincipal("Individual", NameA) EXCEPT !.memberOf = <<NameG>>, !.emails = <<NameB>>],
     [NewPrincipal("Individual", <<"B", "@", "d">>) EXCEPT !.emails = <<NameB>>,
                                                          !.members = <<NameD>>],
     [NewPrincipal("Group", NameX) EXCEPT !.members = <<NameU>>]}

Update(by, changes) == [by |-> by, changes |-> changes]

UpdateInputsCore ==
    {Update(ByName(NameU), <<Change("AddItem", "MemberOf", "String", NameG)>>),
     Update(ByName(NameU), <<Change("Set", "Roles", "StringList", <<NameAdmin>>)>>),
     Update(ById(IdU), <<Change("Set", "Name", "String", NameB)>>),
     Update(ById(IdU), <<Change("AddItem", "Emails", "String", NameA)>>),
     Update(ByName(NameG), <<Change("AddItem", "Members", "String", NameU)>>),
     Update(ByName(NameG), <<Change("Set", "Members", "StringList", <<>>)>>),
     Update(ByName(NameU), <<Change("RemoveItem", "MemberOf", "String", NameG)>>),
     Update(ByName(NameG), <<Change("RemoveItem", "Members", "String", NameU)>>)}

DeleteInputsCore == {ById(IdU), ByName(NameG)}

NoTask == [t \in Procs |-> Idle]

(***************************************************************************)
(* Spec: two tasks run creates, updates and deletes on DirectoryCore.      *)
(***************************************************************************)
Init ==
    /\ store = DirectoryCore
    /\ task = NoTask
    /\ started = 0

Next ==
    \E t \in {"t1", "t2"} :
        \/ \E inp \in CreateInputsCore : StartCreate(t, inp, None, MaxOps)
        \/ CommitCreate(t)
        \/ \E u \in UpdateInputsCore : StartUpdate(t, u.by, u.changes, None, MaxOps)
        \/ UpdateChange(t)
        \/ CommitUpdate(t)
        \/ \E by \in DeleteInputsCore : StartDelete(t, by, MaxOps)
        \/ \E failed \in 0..3 : DeletePurge(t, failed)
        \/ CommitDelete(t)

Spec == Init /\ [][Next]_vars

(***************************************************************************)
(* SpecCreate: three tasks create principals on DirectoryCore.             *)
(***************************************************************************)
CreateInputsRace ==
    {[NewPrincipal("Individual", NameA) EXCEPT !.emails = <<NameA>>],
     [NewPrincipal("Group", <<"A", "@", "D">>) EXCEPT !.members = <<NameU>>],
     NewPrincipal("Individual", NameB)}

NextCreate ==
    \E t \in Procs :
        \/ \E inp \in CreateInputsRace : StartCreate(t, inp, None, MaxOps)
        \/ CommitCreate(t)

SpecCreate == Init /\ [][NextCreate]_vars

(***************************************************************************)
(* SpecUpdate2: two update_principal calls on the same principal, each     *)
(* with a change to a field that is no membership field.                   *)
(***************************************************************************)
NameDescX == <<"x">>
NameDescY == <<"y">>

UpdateInputsLock ==
    {<<Change("Set", "Description", "String", NameDescX)>>,
     <<Change("Set", "Description", "String", NameDescY)>>,
     <<Change("Set", "Name", "String", NameB)>>,
     <<Change("AddItem", "Emails", "String", NameA),
       Change("AddItem", "MemberOf", "String", NameG)>>,
     <<Change("Set", "Emails", "StringList", <<NameU>>)>>}

NextUpdate2 ==
    \E t \in {"t1", "t2"} :
        \/ /\ task[t].pc = "idle"
           /\ \E by \in {ById(IdU), ByName(NameU)}, changes \in UpdateInputsLock :
                 StartUpdate(t, by, changes, None, MaxOps)
        \/ UpdateChange(t)
        \/ CommitUpdate(t)

SpecUpdate2 == Init /\ [][NextUpdate2]_vars

(***************************************************************************)
(* SpecGoc: three tasks call get_or_create_principal_id; the store may     *)
(* fail a write.                                                           *)
(***************************************************************************)
GocNames == {NameX, <<"X">>, NameG}

NextGoc ==
    \E t \in Procs :
        \/ \E name \in GocNames : StartGoc(t, name, "Individual", MaxOps)
        \/ GocRead(t)
        \/ GocCommit(t)
        \/ GocWriteFails(t)

SpecGoc == Init /\ [][NextGoc]_vars

(***************************************************************************)
(* SpecGocDelete: get_or_create_principal_id races with itself and with    *)
(* delete_principal of the same name.                                      *)
(***************************************************************************)
NextGocDelete ==
    \E t \in {"t1", "t2"} :
        \/ \E name \in {NameX, <<"X">>} : StartGoc(t, name, "Individual", MaxOpsGoc)
        \/ GocRead(t)
        \/ GocCommit(t)
        \/ GocWriteFails(t)
        \/ StartDelete(t, ByName(NameX), MaxOpsGoc)
        \/ DeletePurge(t, 0)
        \/ CommitDelete(t)

SpecGocDelete == Init /\ [][NextGocDelete]_vars

(***************************************************************************)
(* SpecTenant: two tasks rename the principals of a directory with a       *)
(* tenant and delete the tenant and its domain.                            *)
(***************************************************************************)
MaxOpsTenant == 4

DirectoryTenantOnly ==
    Created(EmptyStore, <<Call(NewPrincipal("Tenant", NameT), None)>>)

IdT == IdOf(DirectoryTenantOnly, NameT)

\* a tenant, its domain, an individual of the tenant and an individual of
\* no tenant
DirectoryTenant ==
    Created(DirectoryTenantOnly,
            <<Call([NewPrincipal("Domain", NameD) EXCEPT !.tenant = Some(NameT)], None),
              Call([NewPrincipal("Individual", NameU) EXCEPT !.emails = <<NameU>>], Some(IdT)),
              Call(NewPrincipal("Individual", NameX), None)>>)

UpdateInputsTenant ==
    {Update(ByName(NameU), <<Change("Set", "Name", "String", NameB)>>),
     Update(ByName(NameX), <<Change("Set", "Name", "String", NameB)>>)}

DeleteInputsTenant == {ByName(NameD), ById(IdT)}

InitTenant ==
    /\ store = DirectoryTenant
    /\ task = NoTask
    /\ started = 0

NextTenant ==
    \E t \in {"t1", "t2"} :
        \/ \E u \in UpdateInputsTenant :
              StartUpdate(t, u.by, u.changes, None, MaxOpsTenant)
        \/ UpdateChange(t)
        \/ CommitUpdate(t)
        \/ \E by \in DeleteInputsTenant : StartDelete(t, by, MaxOpsTenant)
        \/ DeletePurge(t, 0)
        \/ CommitDelete(t)

SpecTenant == InitTenant /\ [][NextTenant]_vars

(***************************************************************************)
(* SpecScope: two tasks create and update principals under the scope of    *)
(* tenant t, on a directory with the principals of two tenants.            *)
(***************************************************************************)
NameS == <<"s">>
NameE == <<"e">>
NameGD == <<"g", "@", "d">>
NameHE == <<"h", "@", "e">>
NameVE == <<"v", "@", "e">>
NameR == <<"r">>

DirectoryTenants ==
    Created(EmptyStore, <<Call(NewPrincipal("Tenant", NameT), None),
                          Call(NewPrincipal("Tenant", NameS), None)>>)

IdS == IdOf(DirectoryTenants, NameS)

\* two tenants, each with a domain, an individual and a group; an individual
\* and a role of no tenant
DirectoryScope ==
    Created(DirectoryTenants,
            <<Call([NewPrincipal("Domain", NameD) EXCEPT !.tenant = Some(NameT)], None),
              Call([NewPrincipal("Domain", NameE) EXCEPT !.tenant = Some(NameS)], None),
              Call([NewPrincipal("Individual", NameU) EXCEPT !.emails = <<NameU>>], Some(IdT)),
              Call(NewPrincipal("Group", NameGD), Some(IdT)),
              Call(NewPrincipal("Individual", NameVE), Some(IdS)),
              Call(NewPrincipal("Group", NameHE), Some(IdS)),
              Call(NewPrincipal("Individual", NameX), None),
              Call(NewPrincipal("Role", NameR), None)>>)

CreateInputsScope ==
    {[NewPrincipal("Individual", NameA) EXCEPT !.memberOf = <<NameGD>>],
     [NewPrincipal("Individual", NameA) EXCEPT !.memberOf = <<NameHE>>],
     [NewPrincipal("Group", NameB) EXCEPT !.members = <<NameU, NameVE>>],
     [NewPrincipal("Individual", NameB) EXCEPT !.roles = <<NameUser>>]}

\* a sequence: the values of its changes have different shapes
UpdateInputsScope ==
    <<Update(ByName(NameU), <<Change("AddItem", "MemberOf", "String", NameGD)>>),
     Update(ByName(NameU), <<Change("AddItem", "MemberOf", "String", NameHE)>>),
     Update(ByName(NameU), <<Change("Set", "Roles", "StringList", <<NameAdmin>>)>>),
     Update(ByName(NameU), <<Change("AddItem", "Roles", "String", NameR)>>),
     Update(ByName(NameGD), <<Change("Set", "Members", "StringList", <<NameU, NameX>>)>>),
     Update(ByName(NameGD), <<Change("AddItem", "Members", "String", NameU)>>),
     Update(ByName(NameHE), <<Change("AddItem", "Members", "String", NameU)>>),
     Update(ByName(NameVE), <<Change("Set", "MemberOf", "StringList", <<NameGD>>)>>)>>

InitScope ==
    /\ store = DirectoryScope
    /\ task = NoTask
    /\ started = 0

NextScope ==
    \E t \in {"t1", "t2"} :
        \/ \E inp \in CreateInputsScope : StartCreate(t, inp, Some(IdT), MaxOps)
        \/ CommitCreate(t)
        \/ \E i \in DOMAIN UpdateInputsScope :
              StartUpdate(t, UpdateInputsScope[i].by, UpdateInputsScope[i].changes,
                          Some(IdT), MaxOps)
        \/ UpdateChange(t)
        \/ CommitUpdate(t)

SpecScope == InitScope /\ [][NextScope]_vars

(***************************************************************************)
(* SpecTenancy: calls without tenant scope that create principals of a     *)
(* tenant, move principals between tenants and delete them, on a directory *)
(* whose principals got their tenants in each of the ways and have used    *)
(* quota.                                                                  *)
(***************************************************************************)
NameW == <<"w", "@", "d">>
NameN == <<"n">>

\* u@d was created under the scope of tenant t, w@d with tenant t named in
\* its input, v@e under the scope of tenant s, x with no tenant
DirectoryTenancy ==
    Created(DirectoryTenants,
            <<Call([NewPrincipal("Domain", NameD) EXCEPT !.tenant = Some(NameT)], None),
              Call([NewPrincipal("Domain", NameE) EXCEPT !.tenant = Some(NameS)], None),
              Call([NewPrincipal("Individual", NameU) EXCEPT !.emails = <<NameU>>], Some(IdT)),
              Call([NewPrincipal("Individual", NameW) EXCEPT !.tenant = Some(NameT)], None),
              Call(NewPrincipal("Individual", NameVE), Some(IdS)),
              Call(NewPrincipal("Individual", NameX), None)>>)

\* the UsedQuota counters that the subsystems outside the directory keep
UsedQuotaTenancy ==
    LET id(n) == IdOf(DirectoryTenancy, n)
    IN  (id(NameU) :> 2) @@ (id(NameW) :> 3) @@ (id(NameVE) :> 1) @@ (id(NameX) :> 1)
        @@ (IdT :> 5) @@ (IdS :> 1)

CreateInputsTenancy ==
    {Call([NewPrincipal("Individual", NameA) EXCEPT !.tenant = Some(NameT)], None),
     Call(NewPrincipal("Group", NameA), Some(IdT)),
     Call([NewPrincipal("Group", NameB) EXCEPT !.tenant = Some(NameS)], Some(IdT))}

UpdateInputsTenancy ==
    {Update(ByName(n), <<Change("Set", "Tenant", "String", tn)>>) :
        n \in {NameU, NameW, NameX},
        tn \in {NameT, NameS, <<>>, NameD, NameN}}

DeleteInputsTenancy == {ByName(NameU), ByName(NameW), ByName(NameX), ByName(NameVE)}

InitTenancy ==
    /\ store = [DirectoryTenancy EXCEPT !.usedQuota = UsedQuotaTenancy]
    /\ task = NoTask
    /\ started = 0

NextTenancy ==
    \E t \in {"t1", "t2"} :
        \/ \E c \in CreateInputsTenancy : StartCreate(t, c.inp, c.tenant_id, MaxOps)
        \/ CommitCreate(t)
        \/ \E u \in UpdateInputsTenancy : StartUpdate(t, u.by, u.changes, None, MaxOps)
        \/ UpdateChange(t)
        \/ CommitUpdate(t)
        \/ \E by \in DeleteInputsTenancy : StartDelete(t, by, MaxOps)
        \/ DeletePurge(t, 0)
        \/ CommitDelete(t)

SpecTenancy == InitTenancy /\ [][NextTenancy]_vars

(***************************************************************************)
(* SpecAtomic: two tasks run calls that succeed and calls that fail at     *)
(* each of their steps, on DirectoryCore.                                  *)
(***************************************************************************)
CreateInputsAtomic ==
    {[NewPrincipal("Individual", NameA) EXCEPT !.emails = <<NameA>>, !.memberOf = <<NameG>>],
     [NewPrincipal("Individual", NameB) EXCEPT !.emails = <<NameU>>],
     [NewPrincipal("Group", NameB) EXCEPT !.members = <<NameU, NameN>>]}

\* lists of two changes: both accepted, or the second rejected
UpdateInputsAtomic ==
    <<Update(ByName(NameU), <<Change("AddItem", "MemberOf", "String", NameG),
                              Change("Set", "Name", "String", NameB)>>),
      Update(ByName(NameU), <<Change("AddItem", "Emails", "String", NameA),
                              Change("Set", "Name", "String", NameG)>>),
      Update(ByName(NameU), <<Change("Set", "Description", "String", NameDescX),
                              Change("AddItem", "MemberOf", "String", NameN)>>),
      Update(ByName(NameG), <<Change("AddItem", "Members", "String", NameU),
                              Change("Set", "Tenant", "String", NameD)>>),
      Update(ByName(NameN), <<Change("Set", "Description", "String", NameDescX)>>)>>

DeleteInputsAtomic == {ByName(NameU), ByName(NameN)}

NextAtomic ==
    \E t \in {"t1", "t2"} :
        \/ \E inp \in CreateInputsAtomic : StartCreate(t, inp, None, MaxOps)
        \/ CommitCreate(t)
        \/ \E i \in DOMAIN UpdateInputsAtomic :
              StartUpdate(t, UpdateInputsAtomic[i].by, UpdateInputsAtomic[i].changes,
                          None, MaxOps)
        \/ UpdateChange(t)
        \/ CommitUpdate(t)
        \/ \E by \in DeleteInputsAtomic : StartDelete(t, by, MaxOps)
        \/ \E failed \in 0..3 : DeletePurge(t, failed)
        \/ CommitDelete(t)

SpecAtomic == Init /\ [][NextAtomic]_vars

(***************************************************************************)
(* SpecRename: two tasks rename the individual u@d of tenant t under the   *)
(* scope of tenant t, with lists of one and of two Set Name changes.       *)
(***************************************************************************)
NameBD == <<"b", "@", "d">>
NameBE == <<"b", "@", "e">>
NameCE == <<"c", "@", "e">>
NameUUpper == <<"U", "@", "D">>

SetName(name) == Change("Set", "Name", "String", name)

UpdateInputsRename ==
    {Update(ByName(NameU), changes) :
        changes \in {<<SetName(NameBD)>>, <<SetName(NameBE)>>, <<SetName(NameN)>>,
                     <<SetName(NameUUpper)>>, <<SetName(NameGD)>>,
                     <<SetName(NameBD), SetName(NameCE)>>,
                     <<SetName(NameBD), SetName(NameN)>>,
                     <<SetName(NameUUpper), SetName(NameCE)>>}}

NextRename ==
    \E t \in {"t1", "t2"} :
        \/ \E u \in UpdateInputsRename : StartUpdate(t, u.by, u.changes, Some(IdT), MaxOps)
        \/ UpdateChange(t)
        \/ CommitUpdate(t)

SpecRename == InitScope /\ [][NextRename]_vars

(***************************************************************************)
(* SpecEmails: two tasks replace the email list of u@d on DirectoryCore.   *)
(***************************************************************************)
NameAUpper == <<"A", "@", "D">>

SetEmails(emails) == Change("Set", "Emails", "StringList", emails)

UpdateInputsEmails ==
    {Update(ByName(NameU), <<SetEmails(emails)>>) :
        emails \in {<<>>, <<NameA>>, <<NameUUpper, NameA>>, <<NameA, NameB>>,
                    <<NameA, NameAUpper>>, <<NameA, NameU, NameA>>}}

NextEmails ==
    \E t \in {"t1", "t2"} :
        \/ \E u \in UpdateInputsEmails : StartUpdate(t, u.by, u.changes, None, MaxOps)
        \/ UpdateChange(t)
        \/ CommitUpdate(t)

SpecEmails == Init /\ [][NextEmails]_vars

(***************************************************************************)
(* SpecIdem: one task adds and removes single edges, with and without the  *)
(* scope of tenant t, on a directory where u@d of tenant t is a member of  *)
(* the group k of no tenant.                                               *)
(***************************************************************************)
NameK == <<"k">>

DirectoryIdem ==
    Created(DirectoryScope,
            <<Call([NewPrincipal("Group", NameK) EXCEPT !.members = <<NameU>>], None)>>)

AddItem(field, name) == Change("AddItem", field, "String", name)

RemoveItem(field, name) == Change("RemoveItem", field, "String", name)

UpdateInputsIdem ==
    {Update(ByName(NameU), changes) :
        changes \in {<<AddItem("MemberOf", NameK)>>,
                     <<AddItem("MemberOf", NameGD)>>,
                     <<AddItem("MemberOf", NameGD), AddItem("MemberOf", NameGD)>>,
                     <<RemoveItem("MemberOf", NameGD)>>,
                     <<RemoveItem("MemberOf", NameK), RemoveItem("MemberOf", NameK)>>,
                     <<RemoveItem("MemberOf", NameN)>>,
                     <<AddItem("Roles", NameAdmin)>>,
                     <<AddItem("Roles", NameR)>>,
                     <<RemoveItem("Roles", NameAdmin)>>,
                     <<RemoveItem("Lists", NameGD)>>}}
    \cup
    {Update(ByName(NameGD), changes) :
        changes \in {<<AddItem("Members", NameU)>>,
                     <<AddItem("Members", NameU), AddItem("Members", NameU)>>,
                     <<RemoveItem("Members", NameU)>>,
                     <<RemoveItem("Members", NameX)>>,
                     <<RemoveItem("Members", NameN)>>}}

InitIdem ==
    /\ store = DirectoryIdem
    /\ task = NoTask
    /\ started = 0

NextIdem ==
    \/ \E u \in UpdateInputsIdem, tenant_id \in {None, Some(IdT)} :
          StartUpdate("t1", u.by, u.changes, tenant_id, MaxOps)
    \/ UpdateChange("t1")
    \/ CommitUpdate("t1")

SpecIdem == InitIdem /\ [][NextIdem]_vars

(***************************************************************************)
(* SpecSameName: one task creates principals on DirectoryCore and sets     *)
(* their names to names that differ from theirs in letter case at most, or *)
(* to other names.                                                         *)
(***************************************************************************)
NameAMixed == <<"A", "@", "d">>
NameBUpper == <<"B", "@", "D">>

CreateInputsSameName ==
    {[NewPrincipal("Individual", NameAMixed) EXCEPT
        !.emails = <<NameAUpper>>, !.memberOf = <<NameG>>],
     [NewPrincipal("Group", NameBUpper) EXCEPT !.members = <<NameU>>]}

UpdateInputsSameName ==
    {Update(ByName(n), <<SetName(v)>>) :
        n \in {NameA, NameB}, v \in {NameA, NameAMixed, NameAUpper, NameB, NameBUpper}}

NextSameName ==
    \/ \E inp \in CreateInputsSameName : StartCreate("t1", inp, None, MaxOps)
    \/ CommitCreate("t1")
    \/ \E u \in UpdateInputsSameName : StartUpdate("t1", u.by, u.changes, None, MaxOps)
    \/ UpdateChange("t1")
    \/ CommitUpdate("t1")

SpecSameName == Init /\ [][NextSameName]_vars

(***************************************************************************)
(* SpecDispatch: two tasks update principals of DirectoryScope with lists  *)
(* whose changes are in the dispatch table and lists with a change that is *)
(* not, with and without the scope of tenant t.                            *)
(***************************************************************************)
SetQuota(shape, val) == Change("Set", "Quota", shape, val)

Zeros(n) == [i \in 1..n |-> 0]

Scoped(by, changes, tenant_id) == [by |-> by, changes |-> changes, tenant_id |-> tenant_id]

\* a sequence: the values of its changes have different shapes
UpdateInputsDispatch ==
    <<Scoped(ByName(NameU), <<Change("Set", "Description", "String", NameDescX),
                              Change("Set", "Tenant", "String", NameS)>>, Some(IdT)),
      Scoped(ByName(NameU), <<Change("Set", "Tenant", "String", NameS)>>, None),
      Scoped(ByName(NameD), <<SetQuota("Integer", 5)>>, None),
      Scoped(ByName(NameD), <<SetQuota("String", <<>>)>>, None),
      Scoped(ByName(NameU), <<SetQuota("Integer", 5)>>, Some(IdT)),
      Scoped(ByName(NameU), <<SetQuota("String", <<>>)>>, None),
      Scoped(ByName(NameU), <<SetQuota("String", NameX)>>, None),
      Scoped(ByName(NameU), <<SetQuota("IntegerList", Zeros(1))>>, None),
      Scoped(ByName(NameT), <<SetQuota("IntegerList", Zeros(TypeOther + 1))>>, None),
      Scoped(ByName(NameT), <<SetQuota("IntegerList", Zeros(TypeOther + 2))>>, None),
      Scoped(ByName(NameU), <<AddItem("MemberOf", NameGD),
                              Change("AddItem", "Name", "String", NameBD)>>, None),
      Scoped(ByName(NameU), <<AddItem("MemberOf", NameN),
                              Change("Set", "Tenant", "String", NameS)>>, Some(IdT)),
      Scoped(ByName(NameGD), <<AddItem("Members", NameU),
                               Change("Set", "Members", "String", NameU)>>, Some(IdT))>>

NextDispatch ==
    \E t \in {"t1", "t2"} :
        \/ \E i \in DOMAIN UpdateInputsDispatch :
              StartUpdate(t, UpdateInputsDispatch[i].by, UpdateInputsDispatch[i].changes,
                          UpdateInputsDispatch[i].tenant_id, MaxOps)
        \/ UpdateChange(t)
        \/ CommitUpdate(t)

SpecDispatch == InitScope /\ [][NextDispatch]_vars

(***************************************************************************)
(* SpecCreateScoped: one task creates principals under the scope of tenant *)
(* t on DirectoryScope, with names of every kind of domain.                *)
(***************************************************************************)
NameAE == <<"a", "@", "e">>
NameAN == <<"a", "@", "n">>
NameAX == <<"a", "@", "x">>
NameADE == <<"a", "@", "d", "@", "e">>

CreateInputsScoped ==
    {NewPrincipal("Individual", n) :
        n \in {NameA, NameAUpper, NameAE, NameAN, NameAX, NameADE, NameN, NameU, <<>>}}
    \cup {[NewPrincipal("Group", NameBD) EXCEPT !.tenant = Some(NameS)],
          [NewPrincipal("Group", NameBE) EXCEPT !.tenant = Some(NameT)]}

NextCreateScoped ==
    \/ \E inp \in CreateInputsScoped : StartCreate("t1", inp, Some(IdT), MaxOps)
    \/ CommitCreate("t1")

SpecCreateScoped == InitScope /\ [][NextCreateScoped]_vars

(***************************************************************************)
(* SpecCreateTaken: one task creates principals on DirectoryCore whose     *)
(* names or emails are free or taken, with no tenant scope.                *)
(***************************************************************************)
CreateInputsTaken ==
    {[NewPrincipal("Individual", NameA) EXCEPT !.emails = emails] :
        emails \in {<<NameA>>, <<NameUUpper>>, <<NameA, NameU>>, <<NameAN, NameU>>}}
    \cup {[NewPrincipal("Individual", NameB) EXCEPT !.emails = <<NameAUpper>>],
          [NewPrincipal("Individual", NameB) EXCEPT
              !.emails = <<NameU>>, !.memberOf = <<NameN>>],
          [NewPrincipal("Individual", NameUUpper) EXCEPT !.emails = <<NameU>>],
          [NewPrincipal("Individual", NameB) EXCEPT !.emails = <<NameB>>],
          NewPrincipal("Group", NameN),
          NewPrincipal("Individual", <<"G">>)}

NextCreateTaken ==
    \/ \E inp \in CreateInputsTaken : StartCreate("t1", inp, None, MaxOps)
    \/ CommitCreate("t1")

SpecCreateTaken == Init /\ [][NextCreateTaken]_vars

(***************************************************************************)
(* SpecGocSeq: one task calls get_or_create_principal_id, one call after   *)
(* the other, with names in either letter case and either type; the store  *)
(* may fail a write.                                                       *)
(***************************************************************************)
NextGocSeq ==
    \/ \E name \in {NameX, <<"X">>, NameN, <<"N">>, NameG, <<"G">>, NameUUpper},
          typ \in {"Individual", "Group"} :
          StartGoc("t1", name, typ, MaxOps)
    \/ GocRead("t1")
    \/ GocCommit("t1")
    \/ GocWriteFails("t1")

SpecGocSeq == Init /\ [][NextGocSeq]_vars

(***************************************************************************)
(* SpecEdges: one task creates and updates principals on DirectoryCore     *)
(* with membership inputs on either side of an edge, one call after the    *)
(* other.                                                                  *)
(***************************************************************************)
CreateInputsEdges ==
    {[NewPrincipal("Group", NameX) EXCEPT !.members = <<NameU>>],
     [NewPrincipal("Individual", NameA) EXCEPT !.memberOf = <<NameG>>],
     [NewPrincipal("Individual", NameB) EXCEPT !.roles = <<NameAdmin>>]}

UpdateInputsEdges ==
    {Update(ByName(NameG), <<AddItem("Members", NameU)>>),
     Update(ByName(NameG), <<Change("Set", "Members", "StringList", <<NameU>>)>>),
     Update(ByName(NameU), <<AddItem("MemberOf", NameG)>>),
     Update(ByName(NameU), <<Change("Set", "MemberOf", "StringList", <<NameG>>)>>),
     Update(ByName(NameU), <<Change("Set", "Roles", "StringList", <<NameAdmin>>)>>),
     Update(ByName(NameU), <<AddItem("Roles", NameUser)>>)}

NextEdges ==
    \/ \E inp \in CreateInputsEdges : StartCreate("t1", inp, None, MaxOps)
    \/ CommitCreate("t1")
    \/ \E u \in UpdateInputsEdges : StartUpdate("t1", u.by, u.changes, None, MaxOps)
    \/ UpdateChange("t1")
    \/ CommitUpdate("t1")

SpecEdges == Init /\ [][NextEdges]_vars

(***************************************************************************)
(* SpecMove: two tasks without tenant scope move the principals of         *)
(* DirectoryTenancy between tenants, with one or two Set Tenant changes in *)
(* a call.                                                                 *)
(***************************************************************************)
SetTenant(tenant_name) == Change("Set", "Tenant", "String", tenant_name)

UpdateInputsMove ==
    {Update(ByName(n), changes) :
        n \in {NameU, NameW, NameVE},
        changes \in {<<SetTenant(NameT)>>, <<SetTenant(NameS)>>, <<SetTenant(<<>>)>>,
                     <<SetTenant(NameS), SetTenant(NameT)>>,
                     <<SetTenant(NameS), SetTenant(<<>>)>>,
                     <<SetTenant(<<>>), SetTenant(NameS)>>,
                     <<SetTenant(NameS), SetTenant(NameD)>>}}

NextMove ==
    \E t \in {"t1", "t2"} :
        \/ \E u \in UpdateInputsMove : StartUpdate(t, u.by, u.changes, None, MaxOps)
        \/ UpdateChange(t)
        \/ CommitUpdate(t)

SpecMove == InitTenancy /\ [][NextMove]_vars

(***************************************************************************)
(* SpecMembership: two tasks update u@d and g on DirectoryCore with       *)
(* change lists that are empty, target membership fields only, or rewrite  *)
(* the record.                                                             *)
(***************************************************************************)
SetDescription(d) == Change("Set", "Description", "String", d)

UpdateInputsMembership ==
    {Update(ById(IdU), changes) :
        changes \in {<<>>,
                     <<AddItem("MemberOf", NameG)>>,
                     <<AddItem("Roles", NameUser), RemoveItem("MemberOf", NameG)>>,
                     <<SetDescription(NameDescX)>>,
                     <<SetDescription(NameDescY)>>,
                     <<AddItem("MemberOf", NameG), SetDescription(NameDescY)>>}}
    \cup {Update(ByName(NameG), <<Change("Set", "Members", "StringList", <<NameU>>)>>)}

NextMembership ==
    \E t \in {"t1", "t2"} :
        \/ \E u \in UpdateInputsMembership : StartUpdate(t, u.by, u.changes, None, MaxOps)
        \/ UpdateChange(t)
        \/ CommitUpdate(t)

SpecMembership == Init /\ [][NextMembership]_vars

(***************************************************************************)
(* SpecEmailScope: one task under the scope of tenant t adds and sets the  *)
(* emails of u@d on DirectoryScope, with emails in the domain of tenant t, *)
(* in the domain of tenant s, in no domain of the directory and without    *)
(* domain.                                                                 *)
(***************************************************************************)
\* a sequence: the values of its changes have different shapes
UpdateInputsEmailScope ==
    <<Update(ByName(NameU), <<AddItem("Emails", NameA)>>),
      Update(ByName(NameU), <<AddItem("Emails", NameAE)>>),
      Update(ByName(NameU), <<AddItem("Emails", NameAN)>>),
      Update(ByName(NameU), <<AddItem("Emails", NameN)>>),
      Update(ByName(NameU), <<AddItem("Emails", NameBD), AddItem("Emails", NameCE)>>),
      Update(ByName(NameU), <<SetEmails(<<NameU, NameBE>>)>>),
      Update(ByName(NameU), <<SetEmails(<<NameA>>)>>)>>

NextEmailScope ==
    \/ \E i \in DOMAIN UpdateInputsEmailScope :
          StartUpdate("t1", UpdateInputsEmailScope[i].by,
                      UpdateInputsEmailScope[i].changes, Some(IdT), MaxOps)
    \/ UpdateChange("t1")
    \/ CommitUpdate("t1")

SpecEmailScope == InitScope /\ [][NextEmailScope]_vars

(***************************************************************************)
(* SpecRoles: one task with no tenant scope creates and updates principals *)
(* whose membership fields hold the names of the built-in roles, on a      *)
(* directory where "admin" is an Individual, "user" is a Role and          *)
(* "tenant-admin" is no principal.                                         *)
(***************************************************************************)
DirectoryRoles ==
    Created(DirectoryCore,
            <<Call(NewPrincipal("Individual", NameAdmin), None),
              Call(NewPrincipal("Role", NameUser), None)>>)

RoleNames == {NameAdmin, NameTenantAdmin, NameUser}

CreateInputsRoles ==
    {[NewPrincipal("Individual", NameA) EXCEPT !.roles = <<n>>] : n \in RoleNames}
    \cup {[NewPrincipal("Individual", NameA) EXCEPT !.memberOf = <<NameTenantAdmin>>],
          [NewPrincipal("Individual", NameA) EXCEPT !.lists = <<NameTenantAdmin>>],
          [NewPrincipal("Group", NameX) EXCEPT !.members = <<NameTenantAdmin>>],
          [NewPrincipal("Group", NameX) EXCEPT !.memberOf = <<NameG>>, !.roles = <<NameTenantAdmin>>]}

UpdateInputsRoles ==
    {Update(ByName(NameU), <<AddItem(f, n)>>) :
        f \in {"Roles", "MemberOf", "Lists"}, n \in RoleNames}
    \cup {Update(ByName(NameG), <<AddItem("Members", NameTenantAdmin)>>),
          Update(ByName(NameU), <<AddItem("MemberOf", NameG), AddItem("Roles", NameTenantAdmin)>>)}

InitRoles ==
    /\ store = DirectoryRoles
    /\ task = NoTask
    /\ started = 0

NextRoles ==
    \/ \E inp \in CreateInputsRoles : StartCreate("t1", inp, None, MaxOps)
    \/ CommitCreate("t1")
    \/ \E u \in UpdateInputsRoles : StartUpdate("t1", u.by, u.changes, None, MaxOps)
    \/ UpdateChange("t1")
    \/ CommitUpdate("t1")

SpecRoles == InitRoles /\ [][NextRoles]_vars

(***************************************************************************)
(* SpecList: one task creates, renames, moves and deletes principals of    *)
(* DirectoryScope, so that the NameToId entries of each type and tenant    *)
(* come and go.                                                            *)
(***************************************************************************)
CreateInputsList ==
    {Call(NewPrincipal("Group", NameA), Some(IdT)),
     Call(NewPrincipal("Individual", NameBE), Some(IdS)),
     Call(NewPrincipal("Individual", NameN), None)}

UpdateInputsList ==
    {Update(ByName(NameX), <<SetName(NameK)>>),
     Update(ByName(NameU), <<SetTenant(NameS)>>),
     Update(ByName(NameGD), <<SetTenant(<<>>)>>)}

NextList ==
    \/ \E c \in CreateInputsList : StartCreate("t1", c.inp, c.tenant_id, MaxOps)
    \/ CommitCreate("t1")
    \/ \E u \in UpdateInputsList : StartUpdate("t1", u.by, u.changes, None, MaxOps)
    \/ UpdateChange("t1")
    \/ CommitUpdate("t1")
    \/ \E by \in {ByName(NameVE), ByName(NameX)} : StartDelete("t1", by, MaxOps)
    \/ DeletePurge("t1", 0)
    \/ CommitDelete("t1")

SpecList == InitScope /\ [][NextList]_vars

(***************************************************************************)
(* SpecTenantSource: two tasks create principals on a directory of two     *)
(* tenants, with the tenant from the scope of the call or named in the     *)
(* input, and move them with Set Tenant.                                   *)
(***************************************************************************)
CreateInputsTenantSource ==
    {Call(NewPrincipal("Individual", NameN), Some(IdT)),
     Call([NewPrincipal("Individual", NameK) EXCEPT !.tenant = Some(NameT)], None),
     Call(NewPrincipal("Individual", NameX), None)}

UpdateInputsTenantSource ==
    {Update(ByName(n), <<SetTenant(tn)>>) :
        n \in {NameN, NameK, NameX}, tn \in {NameS, <<>>}}

InitTenantSource ==
    /\ store = DirectoryTenants
    /\ task = NoTask
    /\ started = 0

NextTenantSource ==
    \E t \in {"t1", "t2"} :
        \/ \E c \in CreateInputsTenantSource : StartCreate(t, c.inp, c.tenant_id, MaxOps)
        \/ CommitCreate(t)
        \/ \E u \in UpdateInputsTenantSource : StartUpdate(t, u.by, u.changes, None, MaxOps)
        \/ UpdateChange(t)
        \/ CommitUpdate(t)

SpecTenantSource == InitTenantSource /\ [][NextTenantSource]_vars

(***************************************************************************)
(* SpecFields: one task changes the MemberOf, Lists and Roles fields of    *)
(* u@d on a directory with a group, a list and a role.                     *)
(***************************************************************************)
NameL == <<"l">>

DirectoryFields ==
    Created(DirectoryCore,
            <<Call(NewPrincipal("List", NameL), None),
              Call(NewPrincipal("Role", NameR), None)>>)

\* a sequence: the values of its changes have different shapes
UpdateInputsFields ==
    <<Update(ByName(NameU), <<AddItem("MemberOf", NameG)>>),
      Update(ByName(NameU), <<AddItem("Lists", NameL)>>),
      Update(ByName(NameU), <<AddItem("Roles", NameR)>>),
      Update(ByName(NameU), <<AddItem("Roles", NameAdmin)>>),
      Update(ByName(NameU), <<Change("Set", "MemberOf", "StringList", <<NameG>>)>>),
      Update(ByName(NameU), <<Change("Set", "MemberOf", "StringList", <<>>)>>),
      Update(ByName(NameU), <<Change("Set", "Roles", "StringList", <<NameR>>)>>),
      Update(ByName(NameU), <<Change("Set", "Lists", "StringList", <<NameL>>)>>),
      Update(ByName(NameU), <<RemoveItem("MemberOf", NameG)>>),
      Update(ByName(NameU), <<RemoveItem("MemberOf", NameR)>>),
      Update(ByName(NameU), <<RemoveItem("Roles", NameL)>>),
      Update(ByName(NameU), <<RemoveItem("Roles", NameAdmin)>>)>>

InitFields ==
    /\ store = DirectoryFields
    /\ task = NoTask
    /\ started = 0

NextFields ==
    \/ \E i \in DOMAIN UpdateInputsFields :
          StartUpdate("t1", UpdateInputsFields[i].by, UpdateInputsFields[i].changes,
                      None, MaxOps)
    \/ UpdateChange("t1")
    \/ CommitUpdate("t1")

SpecFields == InitFields /\ [][NextFields]_vars

(***************************************************************************)
(* SpecTenantDelete: two tasks delete the tenants of a directory of two    *)
(* tenants while principals are created under a tenant and moved to one.   *)
(***************************************************************************)
\* tenant t with its domain d and the individual u@d; tenant s with no
\* principal
DirectoryTenantDelete ==
    Created(DirectoryTenants,
            <<Call([NewPrincipal("Domain", NameD) EXCEPT !.tenant = Some(NameT)], None),
              Call(NewPrincipal("Individual", NameU), Some(IdT))>>)

CreateInputsTenantDelete ==
    {Call(NewPrincipal("Group", NameA), Some(IdT)),
     Call([NewPrincipal("Individual", NameK) EXCEPT !.tenant = Some(NameS)], None)}

InitTenantDelete ==
    /\ store = DirectoryTenantDelete
    /\ task = NoTask
    /\ started = 0

NextTenantDelete ==
    \E t \in {"t1", "t2"} :
        \/ \E c \in CreateInputsTenantDelete : StartCreate(t, c.inp, c.tenant_id, MaxOps)
        \/ CommitCreate(t)
        \/ StartUpdate(t, ByName(NameU), <<SetTenant(NameS)>>, None, MaxOps)
        \/ UpdateChange(t)
        \/ CommitUpdate(t)
        \/ \E by \in {ById(IdT), ByName(NameS), ByName(NameD), ByName(NameU)} :
              StartDelete(t, by, MaxOps)
        \/ DeletePurge(t, 0)
        \/ CommitDelete(t)

SpecTenantDelete == InitTenantDelete /\ [][NextTenantDelete]_vars

(***************************************************************************)
(* SpecAddRemove: task t1 adds a name to MemberOf, Lists or Roles of u@d,  *)
(* and when it has finished task t2 removes a name; the directory is       *)
(* DirectoryScope with an Individual named "admin" of no tenant.           *)
(***************************************************************************)
DirectoryAddRemove ==
    Created(DirectoryScope, <<Call(NewPrincipal("Individual", NameAdmin), None)>>)

NamesAddRemove == {NameGD, NameHE, NameR, NameAdmin, NameUser}

InitAddRemove ==
    /\ store = DirectoryAddRemove
    /\ task = NoTask
    /\ started = 0

NextAddRemove ==
    \/ /\ task["t2"].pc \in {"idle", "done"}
       /\ \E f \in MemberOfFields, n \in NamesAddRemove, scope \in {None, Some(IdT)} :
             StartUpdate("t1", ByName(NameU), <<AddItem(f, n)>>, scope, MaxOps)
    \/ /\ task["t1"].pc = "done"
       /\ \E f \in MemberOfFields, n \in NamesAddRemove, scope \in {None, Some(IdT)} :
             StartUpdate("t2", ByName(NameU), <<RemoveItem(f, n)>>, scope, MaxOps)
    \/ \E t \in {"t1", "t2"} : UpdateChange(t)
    \/ \E t \in {"t1", "t2"} : CommitUpdate(t)

SpecAddRemove == InitAddRemove /\ [][NextAddRemove]_vars

(***************************************************************************)
(* Properties.                                                             *)
(***************************************************************************)
Finished(t, op) == task[t].op = op /\ task[t].pc = "done"

Succeeded(t, op) == Finished(t, op) /\ task[t].result.kind = "Ok"

\* a step in which task t returns an error
ReturnsError(t) ==
    /\ task'[t] # task[t]
    /\ task'[t].pc = "done"
    /\ task'[t].result.kind # "Ok"

\* C1: in every reachable state the key MemberOf(a,b) exists if and only if
\* the key Members(b,a) exists
C1_EdgeSymmetry ==
    {<<k[2], k[1]>> : k \in DOMAIN store.memberOf} = store.members

C1_Witness ==
    /\ \E t \in Procs : Succeeded(t, "update")
    /\ \E t \in Procs : Succeeded(t, "delete")
    /\ store.members # {}

\* C2: for every stored Principal record p, NameToId[p.name] exists with
\* id = p.id and no NameToId entry under another name carries p.id
C2_NameIndex ==
    \A id \in DOMAIN store.principal :
        LET p == store.principal[id]
        IN  /\ p.name \in DOMAIN store.nameToId
            /\ store.nameToId[p.name].id = id
            /\ \A n \in DOMAIN store.nameToId :
                  store.nameToId[n].id = id => n = p.name

\* C3: for every stored principal p and every e in p.emails, EmailToId[e]
\* exists with id = p.id, and every EmailToId key is an email of some stored
\* principal
C3_EmailIndex ==
    /\ \A id \in DOMAIN store.principal :
          \A e \in Range(store.principal[id].emails) :
              e \in DOMAIN store.emailToId /\ store.emailToId[e].id = id
    /\ \A e \in DOMAIN store.emailToId :
          \E id \in DOMAIN store.principal : e \in Range(store.principal[id].emails)

\* the principals stored under a name
Named(st, name) == {id \in DOMAIN st.principal : st.principal[id].name = name}

CreatedName(t) == ToLower(task[t].inp.name)

\* C4: of the create_principal calls for one lowercased name at most one
\* commits, and then one Principal record and one NameToId entry exist for
\* the name; a call that fails writes nothing
C4_OneCreatorPerName ==
    /\ [](/\ \A t1, t2 \in Procs :
                (t1 # t2 /\ Succeeded(t1, "create") /\ Succeeded(t2, "create"))
                => CreatedName(t1) # CreatedName(t2)
          /\ \A t \in Procs :
                Succeeded(t, "create")
                => /\ Named(store, CreatedName(t)) = {task[t].result.val[1]}
                   /\ get_principal_id(store, CreatedName(t)) = {task[t].result.val[1]})
    /\ [][\A t \in Procs : ReturnsError(t) => store' = store]_vars

C4_Witness ==
    \E t1, t2 \in Procs :
        /\ Succeeded(t1, "create")
        /\ Finished(t2, "create") /\ task[t2].result = AssertionFailure
        /\ CreatedName(t1) = CreatedName(t2)
        /\ task[t1].inp.name # task[t2].inp.name

\* an update that armed the lock, has not returned, and whose loaded value
\* is no longer the stored one
StaleUpdate(t) ==
    /\ task[t].op = "update" /\ task[t].pc \in {"change", "commit"}
    /\ task[t].L.update_principal
    /\ Get(store.principal, task[t].L.principal_id) # Some(task[t].L.loaded)

\* the other update has won: it succeeded and the stored principal is the
\* one it wrote
WonBy(w, id) ==
    /\ Succeeded(w, "update")
    /\ task[w].L.principal_id = id
    /\ Get(store.principal, id) = Some(task[w].L.inner)

\* C5 as stated: of two updates of non-membership fields that loaded the same
\* principal before either committed, once one has committed a changed value
\* the other returns the assertion failure and writes nothing, and the stored
\* principal is the winner's
C5_LoserAssertionFailure ==
    [][\A t \in Procs :
          (StaleUpdate(t) /\ task'[t].pc = "done")
          => /\ task'[t].result = AssertionFailure
             /\ store' = store
             /\ \E w \in Procs \ {t} : WonBy(w, task[t].L.principal_id)]_vars

\* C5 as amended: the other does not succeed and writes nothing; it returns
\* the assertion failure when it reaches its commit, and otherwise the error
\* of a check of its own changes
C5_LoserFails ==
    [][\A t \in Procs :
          (StaleUpdate(t) /\ task'[t].pc = "done")
          => /\ task'[t].result.kind # "Ok"
             /\ task[t].pc = "commit" => task'[t].result = AssertionFailure
             /\ store' = store
             /\ \E w \in Procs \ {t} : WonBy(w, task[t].L.principal_id)]_vars

C5_Witness ==
    \E t, w \in Procs :
        /\ Finished(t, "update") /\ task[t].result = AssertionFailure
        /\ WonBy(w, task[t].L.principal_id)
        /\ task[w].L.loaded = task[t].L.loaded
        /\ task[w].L.inner # task[w].L.loaded

\* C6: get_or_create_principal_id calls for one name return the same id, and
\* one Principal record and one NameToId entry exist for the name
C6_SameId ==
    /\ \A t1, t2 \in Procs :
          (Succeeded(t1, "goc") /\ Succeeded(t2, "goc") /\ task[t1].name = task[t2].name)
          => task[t1].result = task[t2].result
    /\ \A t \in Procs :
          Succeeded(t, "goc")
          => /\ Named(store, task[t].name) = {task[t].result.val[1]}
             /\ get_principal_id(store, task[t].name) = {task[t].result.val[1]}

C6_Witness ==
    \E t1, t2 \in Procs :
        /\ t1 # t2
        /\ Succeeded(t1, "goc") /\ Succeeded(t2, "goc")
        /\ task[t1].name = task[t2].name
        /\ task[t1].writes = 1 /\ task[t1].try_count = 0
        /\ task[t2].writes = 1 /\ task[t2].try_count = 1

\* C7: a get_or_create_principal_id call makes at most 4 commit attempts; it
\* goes on only after an assertion failure with fewer than 3 retries made; an
\* other error, or the 4th assertion failure, is returned at once
C7_BoundedRetries ==
    \A t \in Procs :
        task[t].op = "goc"
        => /\ task[t].writes <= 4
           /\ task[t].pc # "done"
              => task[t].writes = task[t].try_count /\ task[t].result = Ok
           /\ (task[t].pc = "done" /\ task[t].result = AssertionFailure)
              => task[t].writes = 4
           /\ (task[t].pc = "done" /\ task[t].result = StoreError)
              => task[t].writes = task[t].try_count + 1

C7_Witness ==
    \E t \in Procs :
        /\ Finished(t, "goc")
        /\ task[t].result = AssertionFailure
        /\ task[t].writes = 4

\* the keys that mention id, as a key component or as the id of a
\* PrincipalInfo value
Mentions(st, id) ==
    \/ id \in DOMAIN st.principal
    \/ \E n \in DOMAIN st.nameToId : st.nameToId[n].id = id
    \/ \E e \in DOMAIN st.emailToId : st.emailToId[e].id = id
    \/ \E k \in DOMAIN st.memberOf : k[1] = id \/ k[2] = id
    \/ \E k \in st.members : k[1] = id \/ k[2] = id
    \/ id \in DOMAIN st.usedQuota

\* C8: once delete_principal(p) has returned success, no Principal, NameToId,
\* EmailToId, MemberOf, Members or UsedQuota key mentions p.id
C8_DeletedIsGone ==
    \A t \in Procs : Succeeded(t, "delete") => ~Mentions(store, task[t].principal_id)

\* a step in which task t calls delete_principal(by)
DeleteCalled(t) ==
    /\ task[t].pc \in {"idle", "done"}
    /\ started' = started + 1
    /\ task'[t].op = "delete"
    /\ \A o \in Procs \ {t} : task'[o] = task[o]

\* by names a stored Tenant and some stored principal has it as tenant_id
TenantHasPrincipals(st, by) ==
    LET ids == ResolveId(st, by)
    IN  /\ ids # {}
        /\ The(ids) \in DOMAIN st.principal
        /\ st.principal[The(ids)].typ = "Tenant"
        /\ \E p \in DOMAIN st.principal : st.principal[p].tenant = ids

\* C9: delete_principal on a Tenant T fails with Error("Tenant has members")
\* whenever some principal has tenant_id = T; then no key is changed and none
\* of blob_hash_unlink_account, acl_revoke_all, purge_account is invoked
C9_TenantWithMembers ==
    [][\A t \in Procs :
          (DeleteCalled(t) /\ TenantHasPrincipals(store, task'[t].by))
          => /\ task'[t].pc = "done"
             /\ task'[t].result.kind = "Error"
             /\ task'[t].result.field = "Tenant has members"
             /\ task'[t].ext = <<>>
             /\ store' = store]_vars

\* the member type a of the edge MemberOf(a,b) is allowed for the owner b:
\* by the table of owner types, as the role of a principal, or b is a
\* built-in role
EdgeAllowed(st, a, b) ==
    \/ b \in BuiltinRoles
    \/ a \notin DOMAIN st.principal
    \/ b \notin DOMAIN st.principal
    \/ st.principal[a].typ \in AllowedMemberTypes(st.principal[b].typ)
    \/ st.principal[b].typ = "Role"

\* C10: for every edge MemberOf(a,b) between stored principals the type of a
\* is an allowed member type for the owner type of b, or b is a role
C10_EdgeTypes ==
    \A k \in DOMAIN store.memberOf : EdgeAllowed(store, k[1], k[2])

\* the MemberOf keys set by the operations ops
EdgesSet(ops) ==
    {ops[i].k : i \in {j \in 1..Len(ops) : ops[j].op = "set" /\ ops[j].fam = "MemberOf"}}

\* the MemberOf keys that the step of update task t adds to its batch
NewEdges(t) ==
    IF task[t].op = "update" /\ task[t].pc = "change" /\ task'[t].L.err = Ok
    THEN EdgesSet(SubSeq(task'[t].L.batch, Len(task[t].L.batch) + 1,
                         Len(task'[t].L.batch)))
    ELSE {}

\* id is a built-in role, or NameToId holds it under tenant T or as a role of
\* no tenant
InScope(st, id, T) ==
    \/ id \in BuiltinRoles
    \/ \E n \in DOMAIN st.nameToId :
          /\ st.nameToId[n].id = id
          /\ \/ st.nameToId[n].tenant = T
             \/ st.nameToId[n].typ = "Role" /\ st.nameToId[n].tenant = None

\* the peers that the validation of create task t resolved in this step
CreatePeers(t) ==
    IF task[t].pc \in {"idle", "done"} /\ task'[t].op = "create"
       /\ task'[t].pc = "commit" /\ task'[t] # task[t]
    THEN {task'[t].v.member_of[i].id : i \in 1..Len(task'[t].v.member_of)}
         \cup {task'[t].v.members[i].id : i \in 1..Len(task'[t].v.members)}
    ELSE {}

\* C11: under tenant_scope = T every principal that a newly written edge of
\* create_principal or update_principal links has tenant T in its NameToId
\* PrincipalInfo, or is a role of no tenant or a built-in role id
C11_ScopedEdges ==
    [][\A t \in Procs :
          /\ \A k \in NewEdges(t) :
                task[t].tenant_id # None
                => InScope(store, k[1], task[t].tenant_id)
                   /\ InScope(store, k[2], task[t].tenant_id)
          /\ \A id \in CreatePeers(t) :
                task'[t].tenant_id # None => InScope(store, id, task'[t].tenant_id)]_vars

\* C12: every name that list_principals(filter, typ, Some(T)) returns belongs
\* to a principal whose stored tenant is T
C12_ListedHaveTenant ==
    \A T \in {IdT, IdS} : \A n \in list_principals(store, None, Some(T)) :
        /\ store.nameToId[n].id \in DOMAIN store.principal
        /\ store.principal[store.nameToId[n].id].tenant = Some(T)

\* update task t holds the one change Set Tenant with no tenant scope
SetsTenant(t) ==
    /\ task[t].op = "update"
    /\ task[t].tenant_id = None
    /\ Len(task[t].changes) = 1
    /\ task[t].changes[1].action = "Set"
    /\ task[t].changes[1].field = "Tenant"

\* the tenant of the record of id and of the NameToId value of its name
TenantsOf(st, id) ==
    {st.principal[id].tenant, st.nameToId[st.principal[id].name].tenant}

\* C15: with no tenant scope a successful Set Tenant naming a Tenant T leaves
\* T in the record and in the NameToId value whatever the tenant before, Set
\* Tenant "" leaves both without tenant, and a name that is not a Tenant fails
\* and writes nothing
C15_SetTenant ==
    [][\A t \in Procs :
          SetsTenant(t) /\ task[t].pc # "done" /\ task'[t].pc = "done"
          => LET tn == task[t].changes[1].val
                 info == get_principal_info(store, tn)
                 id == task[t].L.principal_id
             IN  IF task'[t].result = Ok
                 THEN /\ tn # <<>>
                         => /\ info # {}
                            /\ The(info).typ = "Tenant"
                            /\ TenantsOf(store', id) = {Some(The(info).id)}
                      /\ tn = <<>> => TenantsOf(store', id) = {None}
                 ELSE store' = store]_vars

\* the tenants that the record of id or the NameToId value of its name holds
BelongsTo(st, id) ==
    {T \in {IdT, IdS} : Some(T) \in TenantsOf(st, id)}

\* C16: the delete of an Individual or Group of tenant T whose UsedQuota is
\* q > 0 decreases UsedQuota(T) by exactly q in the batch of the delete,
\* however the principal got its tenant
C16_QuotaRefund ==
    [][\A t \in Procs :
          /\ task[t].op = "delete" /\ task[t].pc = "commit" /\ task'[t].pc = "done"
          /\ task'[t].result = Ok
          /\ task[t].principal_id \in DOMAIN store.principal
          /\ task[t].principal.typ \in {"Individual", "Group"}
          /\ GetCounter(store, task[t].principal_id) > 0
          => \A T \in BelongsTo(store, task[t].principal_id) :
                GetCounter(store', T)
                    = GetCounter(store, T) - GetCounter(store, task[t].principal_id)]_vars

\* a step in which task t commits its batch and returns Ok, alone
CommitsAlone(t) ==
    /\ task[t].pc = "commit"
    /\ task'[t].pc = "done"
    /\ task'[t].result.kind = "Ok"
    /\ \A u \in Procs \ {t} : task'[u] = task[u]

\* C13: a create, update or delete call that returns an error leaves every
\* key unchanged, and a call changes the keys only by the one batch commit
\* that is its last step and with which it returns Ok
C13_AtomicCalls ==
    [][/\ store' # store => \E t \in Procs : CommitsAlone(t)
       /\ \A t \in Procs : ReturnsError(t) => store' = store]_vars

\* an update has failed at its second change after its first was accepted, a
\* delete has failed after external calls, and another call has changed keys
C13_Witness ==
    /\ \E t \in Procs :
          \/ /\ Finished(t, "update") /\ task[t].result.kind # "Ok"
             /\ task[t].next = 3 /\ task[t].L.batch # <<>>
          \/ /\ Finished(t, "delete") /\ task[t].result = StoreError
             /\ task[t].ext # <<>>
    /\ \E t \in Procs : task[t].pc = "done" /\ task[t].result.kind = "Ok"
    /\ store # DirectoryCore

\* update task t is at a Set Name change under a tenant scope whose lowercased
\* name differs from the name the principal has at this change
RenamesScoped(t) ==
    /\ task[t].op = "update" /\ task[t].pc = "change"
    /\ task[t].tenant_id # None
    /\ task[t].changes[task[t].next].action = "Set"
    /\ task[t].changes[task[t].next].field = "Name"
    /\ ToLower(task[t].changes[task[t].next].val) # task[t].L.inner.name

\* the new name has an '@' and its domain is a Domain that the scope of task t
\* may access
DomainValid(t) ==
    LET new_name == ToLower(task[t].changes[task[t].next].val)
    IN  HasDomain(new_name) /\ ValidDomain(store, DomainOf(new_name), task[t].tenant_id)

\* C14: under a tenant scope every Set Name change of a list, whose lowercased
\* name differs from the current name, is accepted only if the new name has an
\* '@' and a domain that is a Domain accessible to the scope; otherwise the
\* call fails with "Principal name must include a valid domain" and writes
\* nothing
C14_RenameNeedsDomain ==
    [][\A t \in Procs :
          RenamesScoped(t) /\ task'[t] # task[t] /\ ~DomainValid(t)
          => /\ task'[t].pc = "done"
             /\ task'[t].result = InvalidDomainError
             /\ store' = store]_vars

\* seq without the later occurrences of its elements
RECURSIVE Dedupe(_)
Dedupe(seq) ==
    IF seq = <<>> THEN <<>>
    ELSE LET init == SubSeq(seq, 1, Len(seq) - 1)
             last == seq[Len(seq)]
         IN  IF Contains(init, last) THEN Dedupe(init) ELSE Append(Dedupe(init), last)

\* C17: after a successful Set Emails L the stored list is L lowercased
\* without duplicates, the EmailToId entry of every email held before and not
\* in L is cleared, that of every email of L not held before is
\* PrincipalInfo(id, type, None), and those of retained emails are unchanged
C17_SetEmails ==
    [][\A t \in Procs :
          /\ task[t].op = "update" /\ task[t].pc = "commit" /\ task'[t].pc = "done"
          /\ task'[t].result = Ok
          /\ Len(task[t].changes) = 1
          /\ task[t].changes[1].action = "Set" /\ task[t].changes[1].field = "Emails"
          => LET id == task[t].L.principal_id
                 val == task[t].changes[1].val
                 L == [i \in 1..Len(val) |-> ToLower(val[i])]
                 held == Range(store.principal[id].emails)
             IN  /\ store'.principal[id].emails = Dedupe(L)
                 /\ \A e \in held \ Range(L) : e \notin DOMAIN store'.emailToId
                 /\ \A e \in Range(L) \ held :
                       /\ e \in DOMAIN store'.emailToId
                       /\ store'.emailToId[e]
                            = PrincipalInfo(id, store.principal[id].typ, None)
                 /\ \A e \in held \cap Range(L) :
                       /\ e \in DOMAIN store'.emailToId
                       /\ store'.emailToId[e] = store.emailToId[e]]_vars

\* update task t is at an AddItem or RemoveItem change of a membership field
AtEdgeChange(t, action) ==
    /\ task[t].op = "update" /\ task[t].pc = "change"
    /\ task[t].changes[task[t].next].action = action
    /\ task[t].changes[task[t].next].field \in MembershipFields

\* the ids that the principal of task t is linked to through the field of
\* its change, as the call holds them
LinkedIds(t) ==
    IF task[t].changes[task[t].next].field = "Members"
    THEN Range(task[t].L.members)
    ELSE Range(task[t].L.member_of)

\* the id that the name of the change of task t stands for, whatever its
\* tenant: the principal of that name, else the built-in role of that name
PeerIds(t) ==
    LET c == task[t].changes[task[t].next]
        ids == get_principal_id(store, c.val)
    IN  IF ids # {} THEN ids ELSE MapInternalRoleName(c.field, c.val)

\* the ids among PeerIds(t) that the tenant scope of task t lets it see
VisiblePeerIds(t) ==
    LET c == task[t].changes[task[t].next]
        infos == IF c.field = "Members"
                 THEN ResolveMember(store, c.val, task[t].tenant_id)
                 ELSE ResolveMemberOf(store, c.field, c.val, task[t].tenant_id)
    IN  {v.id : v \in infos}

\* the step of task t accepts its change and adds no operation to the batch
NoEdgeOp(t) ==
    /\ task'[t].L.err = Ok
    /\ task'[t].L.batch = task[t].L.batch

\* the changes from the i-th on, applied as the call applies them
RECURSIVE RunChanges(_, _, _, _, _)
RunChanges(st, L, changes, i, tenant_id) ==
    IF i > Len(changes) \/ L.err # Ok THEN L
    ELSE RunChanges(st, ProcessChange(st, L, changes[i], tenant_id), changes, i + 1,
                    tenant_id)

\* the store after update_principal(by, changes, tenant_id) on st
RunUpdate(st, by, changes, tenant_id) ==
    LET L0 == UpdateLoad(st, by, changes, tenant_id)
        L == IF L0.err # Ok THEN L0 ELSE RunChanges(st, L0, changes, 1, tenant_id)
    IN  IF L.err # Ok THEN st ELSE Write(st, UpdateBatch(L))

\* the changes of task t are all AddItem or all RemoveItem of membership fields
EdgeChangesOnly(t) ==
    \E action \in {"AddItem", "RemoveItem"} :
        \A i \in 1..Len(task[t].changes) :
            /\ task[t].changes[i].action = action
            /\ task[t].changes[i].field \in MembershipFields

\* a successful call of AddItem or RemoveItem changes, applied once more, adds
\* and removes no MemberOf or Members key
TwiceIsOnce ==
    \A t \in Procs :
        /\ task[t].op = "update" /\ task[t].pc = "commit" /\ task'[t].pc = "done"
        /\ task'[t].result = Ok
        /\ EdgeChangesOnly(t)
        => LET again == RunUpdate(store', task[t].by, task[t].changes, task[t].tenant_id)
           IN  /\ DOMAIN again.memberOf = DOMAIN store'.memberOf
               /\ again.members = store'.members

SetsSameName(t) ==
    /\ task[t].op = "update"
    /\ Len(task[t].changes) = 1
    /\ task[t].changes[1].action = "Set" /\ task[t].changes[1].field = "Name"
    /\ \E id \in ResolveId(store, task[t].by) :
          /\ id \in DOMAIN store.principal
          /\ store.principal[id].name = ToLower(task[t].changes[1].val)

\* C19: after create_principal, an update_principal with Set Name to the
\* current name of the principal, in any letter case, succeeds and leaves the
\* value of every key unchanged
C19_SameNameNoChange ==
    [][\A t \in Procs :
          SetsSameName(t) /\ task[t].pc # "done" /\ task'[t].pc = "done"
          => task'[t].result = Ok /\ store' = store]_vars

\* the principal a@d, created in this behaviour with emails and an edge, has
\* had its name set to a name in other letter case, and the call returned Ok
C19_Witness ==
    \E t \in Procs :
        /\ Finished(t, "update") /\ task[t].result = Ok
        /\ SetsSameName(t)
        /\ task[t].changes[1].val # ToLower(task[t].changes[1].val)
        /\ task[t].L.principal_id \notin DOMAIN DirectoryCore.principal
        /\ store.principal[task[t].L.principal_id].emails # <<>>

\* the dispatch table of update_principal for the fields of the modelled
\* principal: the change c of a principal of type typ under tenant_id
InTable(c, typ, tenant_id) ==
    LET is(action, field, shape) ==
            c.action = action /\ c.field = field /\ c.shape = shape
    IN  \/ is("Set", "Name", "String")
        \/ is("Set", "Tenant", "String") /\ tenant_id = None
        \/ is("Set", "Description", "String")
        \/ is("Set", "Quota", "Integer") /\ typ \in {"Individual", "Group", "Tenant"}
        \/ is("Set", "Quota", "String") /\ typ \in {"Individual", "Group", "Tenant"}
           /\ c.val = <<>>
        \/ is("Set", "Quota", "IntegerList") /\ typ = "Tenant" /\ Len(c.val) <= TypeOther + 1
        \/ is("Set", "Emails", "StringList")
        \/ is("AddItem", "Emails", "String") \/ is("RemoveItem", "Emails", "String")
        \/ \E field \in MembershipFields :
              \/ is("Set", field, "StringList")
              \/ is("AddItem", field, "String") \/ is("RemoveItem", field, "String")

\* the first change of the list of update task t that is outside the table,
\* 0 if there is none
FirstOutside(t) ==
    LET outside == {i \in 1..Len(task[t].changes) :
                       ~InTable(task[t].changes[i], task[t].L.inner.typ, task[t].tenant_id)}
    IN  IF outside = {} THEN 0 ELSE Min(outside)

\* C20: an update_principal whose list holds a change outside the dispatch
\* table writes nothing and does not succeed: it returns NotSupported when it
\* reaches the first such change, all changes before it accepted and none of
\* them applied, or the error of an earlier change that fails
C20_NotSupported ==
    [][\A t \in Procs :
          /\ task[t].op = "update" /\ task[t].pc = "change" /\ task'[t] # task[t]
          /\ FirstOutside(t) # 0
          => /\ store' = store
             /\ task'[t].pc # "commit"
             /\ task'[t].pc = "done" => task'[t].result # Ok
             /\ task[t].next = FirstOutside(t)
                => task'[t].pc = "done" /\ task'[t].result = NotSupported]_vars

\* an update_principal whose list holds a change outside the dispatch table
\* returns NotSupported
C20_AlwaysNotSupported ==
    [][\A t \in Procs :
          /\ task[t].op = "update" /\ task[t].pc = "change" /\ task'[t].pc = "done"
          /\ FirstOutside(t) # 0
          => task'[t].result = NotSupported]_vars

\* a call has returned NotSupported at its second change with the edge
\* operations of its first change in its batch, and the store holds no edge
C20_Witness ==
    \E t \in Procs :
        /\ Finished(t, "update") /\ task[t].result = NotSupported
        /\ task[t].next = 3
        /\ EdgesSet(task[t].L.batch) # {}
        /\ DOMAIN store.memberOf = {}

\* the step in which task t starts a create_principal under a tenant scope
StartsScopedCreate(t) ==
    /\ started' # started
    /\ task[t].pc \in {"idle", "done"}
    /\ task'[t].pc # "idle"
    /\ task'[t].op = "create"
    /\ task'[t].tenant_id # None

\* the lowercased name of the create of task t has an '@' and its domain is a
\* Domain accessible to the tenant scope
CreateNameValid(t) ==
    LET name == ToLower(task'[t].inp.name)
    IN  /\ HasDomain(name)
        /\ DomainOf(name) \in DOMAIN store.nameToId
        /\ store.nameToId[DomainOf(name)].typ = "Domain"
        /\ store.nameToId[DomainOf(name)].tenant = task'[t].tenant_id

\* the step in which the create of task t under a tenant scope commits: the
\* record and the NameToId value of the new principal hold the scope's tenant
ScopedCreateHasTenant(t) ==
    /\ task[t].op = "create" /\ task[t].pc = "commit"
    /\ task[t].tenant_id # None
    /\ task'[t].result.kind = "Ok"
    => LET id == task'[t].result.val[1]
       IN  /\ store'.principal[id].tenant = task[t].tenant_id
           /\ store'.nameToId[store'.principal[id].name].tenant = task[t].tenant_id

\* C21: create_principal with tenant_scope = T and a non-empty name fails with
\* Error "Principal name must include a valid domain" and writes nothing
\* unless the lowercased name has an '@' and its domain is a Domain accessible
\* to T (an empty name fails with the missing-name error); on success the
\* stored tenant and the NameToId tenant are both T even if the input names
\* another tenant
C21_ScopedCreate ==
    [][\A t \in Procs :
          /\ StartsScopedCreate(t) /\ ~CreateNameValid(t)
             => /\ task'[t].pc = "done"
                /\ store' = store
                /\ IF task'[t].inp.name = <<>>
                   THEN task'[t].result = err_missing("Name")
                   ELSE task'[t].result = InvalidDomainError
          /\ ScopedCreateHasTenant(t)]_vars

\* create_principal with tenant_scope = T fails with Error "Principal name
\* must include a valid domain" unless the name has a valid domain
C21_AlwaysDomainError ==
    [][\A t \in Procs :
          StartsScopedCreate(t) /\ ~CreateNameValid(t)
          => task'[t].result = InvalidDomainError]_vars

\* a create under the scope of tenant t whose input names tenant s has
\* succeeded, after a create with a domain of tenant s has failed
C21_Witness ==
    /\ Succeeded("t1", "create")
    /\ task["t1"].inp.tenant = Some(NameS)
    /\ started >= 2
    /\ DOMAIN store.nameToId \cap {NameAE, NameAN, NameAX, NameN} = {}

\* the step in which task t starts a create_principal
StartsCreate(t) ==
    /\ started' # started
    /\ task[t].pc \in {"idle", "done"}
    /\ task'[t].pc # "idle"
    /\ task'[t].op = "create"

\* the positions of the emails of the create of task t that are recipients
TakenEmails(t) ==
    {i \in 1..Len(task'[t].inp.emails) : rcpt(store, ToLower(task'[t].inp.emails[i]))}

\* the name of the create of task t is in NameToId
NameTaken(t) == ToLower(task'[t].inp.name) \in DOMAIN store.nameToId

\* the step of task t returns the error of that kind and field for value
Returns(t, kind, field, value) ==
    /\ task'[t].pc = "done"
    /\ task'[t].result.kind = kind
    /\ task'[t].result.field = field
    /\ task'[t].result.val = value

\* the names of the create of task t whose resolution precedes the test of
\* its first taken email: its members and the domains of the earlier emails
ResolvedBefore(t) ==
    LET inp == task'[t].inp
        first == Min(TakenEmails(t))
    IN  Range(inp.members) \cup Range(inp.memberOf) \cup Range(inp.lists)
        \cup Range(inp.roles)
        \cup {DomainOf(ToLower(inp.emails[i])) :
                 i \in {j \in 1..(first - 1) : HasDomain(inp.emails[j])}}

RecordsNamed(st, name) == {id \in DOMAIN st.principal : st.principal[id].name = name}

\* C23: get_or_create_principal_id returns the id of NameToId[lowercase(name)]
\* without any write when that key exists, whatever the type of its principal;
\* the id of a name never changes, and a call that returns an id returns the
\* id of the one record of the lowercased name, so that sequential calls with
\* names that differ in letter case only return the same id
C23_Upsert ==
    [][/\ \A t \in Procs :
             /\ task[t].op = "goc" /\ task[t].pc = "read"
                /\ ToLower(task[t].name) \in DOMAIN store.nameToId
                /\ task'[t] # task[t]
                => /\ task'[t].pc = "done"
                   /\ task'[t].result = OkId(store.nameToId[ToLower(task[t].name)].id)
                   /\ task'[t].writes = 0
                   /\ store' = store
             /\ task[t].op = "goc" /\ task[t].pc # "done" /\ task'[t].pc = "done"
                /\ task'[t].result.kind = "Ok"
                => /\ ToLower(task[t].name) \in DOMAIN store'.nameToId
                   /\ task'[t].result
                        = OkId(store'.nameToId[ToLower(task[t].name)].id)
                   /\ Cardinality(RecordsNamed(store', ToLower(task[t].name))) = 1
                   /\ RecordsNamed(store', task[t].name) \subseteq
                        RecordsNamed(store', ToLower(task[t].name))
       /\ \A n \in DOMAIN store.nameToId :
             /\ n \in DOMAIN store'.nameToId
             /\ store'.nameToId[n].id = store.nameToId[n].id]_vars

\* a later call for the same lowercased name, with another type, has returned
\* without a write the id of the record that an earlier call created
C23_Witness ==
    /\ Finished("t1", "goc")
    /\ task["t1"].result.kind = "Ok"
    /\ task["t1"].writes = 0
    /\ task["t1"].typ = "Group"
    /\ started >= 2
    /\ task["t1"].name = NameX
    /\ NameX \in DOMAIN store.nameToId
    /\ store.nameToId[NameX].typ = "Individual"

\* the type of the principal behind an id, Role for a built-in role id
TypeOfPeer(st, b) ==
    IF b \in BuiltinRoles THEN "Role" ELSE st.principal[b].typ

\* C24: every stored edge MemberOf(a, b) holds the type of b, Role for a
\* built-in role id, and has its reverse edge Members(b, a), whichever
\* operation wrote it
C24_EdgeHoldsPeerType ==
    \A k \in DOMAIN store.memberOf :
        /\ k[2] \in BuiltinRoles \cup DOMAIN store.principal
        /\ store.memberOf[k] = TypeOfPeer(store, k[2])
        /\ <<k[2], k[1]>> \in store.members

\* 1 when the record of id is of tenant T, else 0
OfTenant(st, id, T) == IF st.principal[id].tenant = Some(T) THEN 1 ELSE 0

\* C25: with no tenant scope, the commit of an update whose Set Tenant
\* changes leave a principal with UsedQuota q in another tenant than before
\* subtracts q from the counter of the tenant it leaves and adds q to the
\* counter of the tenant it enters, after one change or several; clearing the
\* tenant only subtracts, and the tenant it already has changes no counter
C25_QuotaFollowsTenant ==
    [][\A t \in Procs :
          /\ task[t].op = "update" /\ task[t].pc = "commit" /\ task'[t].pc = "done"
          /\ task'[t].result = Ok
          /\ \E i \in DOMAIN task[t].changes : task[t].changes[i].field = "Tenant"
          => LET id == task[t].L.principal_id
                 q == GetCounter(store, id)
             IN  \A T \in {IdT, IdS} :
                    GetCounter(store', T)
                        = GetCounter(store, T) + q * OfTenant(store', id, T)
                                               - q * OfTenant(store, id, T)]_vars

\* u@d, with 2 units used in tenant t, was moved to tenant s and then out of
\* every tenant by the two changes of one call
C25_Witness ==
    /\ Finished("t1", "update")
    /\ task["t1"].result = Ok
    /\ task["t1"].changes = <<SetTenant(NameS), SetTenant(<<>>)>>
    /\ task["t1"].L.principal_id = IdOf(DirectoryTenancy, NameU)
    /\ started = 1
    /\ store.principal[IdOf(DirectoryTenancy, NameU)].tenant = None
    /\ GetCounter(store, IdT) = 3
    /\ GetCounter(store, IdS) = 1

\* C26: delete_principal invokes blob_hash_unlink_account, acl_revoke_all and
\* purge_account in this order, all three before its batch is committed; when
\* one of them fails the later ones are not invoked, the delete returns the
\* error, and no step of the delete but the commit changes a directory key
C26_ExternalsBeforeCommit ==
    [][\A t \in Procs :
          task'[t] # task[t] /\ task'[t].op = "delete"
          => LET order == <<"blob_hash_unlink_account", "acl_revoke_all", "purge_account">>
                 invoked == task'[t].ext
             IN  /\ Len(invoked) <= 3
                 /\ invoked = SubSeq(order, 1, Len(invoked))
                 /\ store' # store => task[t].pc = "commit" /\ task[t].ext = order
                 /\ task'[t].pc = "commit" => invoked = order
                 /\ task[t].pc = "purge" /\ invoked # order
                    => /\ task'[t].pc = "done"
                       /\ task'[t].result.kind # "Ok"
                       /\ store' = store]_vars

\* acl_revoke_all failed in the delete of u@d: purge_account was not invoked
\* and the directory is as before the delete
C26_Witness ==
    /\ Finished("t1", "delete")
    /\ task["t1"].result = StoreError
    /\ task["t1"].ext = <<"blob_hash_unlink_account", "acl_revoke_all">>
    /\ task["t1"].principal_id = IdU
    /\ started = 1
    /\ store = DirectoryCore

\* the operations of a batch on the key Principal(id)
OnPrincipal(ops, op, id) ==
    {i \in DOMAIN ops : ops[i].op = op /\ ops[i].fam = "Principal" /\ ops[i].k = id}

\* C27: the batch of an update whose changes all target MemberOf, Members,
\* Lists or Roles, or that has no change, holds no assertion on Principal(id)
\* and no write of it, so that its commit succeeds and leaves every record
\* as it is, also after another update rewrote the record since the load; the
\* batch of an update with a change of another field holds both
C27_LockOnlyForRecordChanges ==
    [][\A t \in Procs :
          task[t].op = "update" /\ task[t].pc = "commit" /\ task'[t].pc = "done"
          => LET ops == UpdateBatch(task[t].L)
                 id == task[t].L.principal_id
                 changes == task[t].changes
             IN  IF \A i \in DOMAIN changes :
                        changes[i].field \in {"MemberOf", "Members", "Lists", "Roles"}
                 THEN /\ OnPrincipal(ops, "assert", id) = {}
                      /\ OnPrincipal(ops, "set", id) = {}
                      /\ task'[t].result = Ok
                      /\ store'.principal = store.principal
                 ELSE /\ OnPrincipal(ops, "assert", id) # {}
                      /\ OnPrincipal(ops, "set", id) # {}]_vars

\* t1 loaded u@d and committed its new edge to g after t2 had rewritten the
\* record: t2 has since loaded the rewritten record, and had not seen the edge
C27_Witness ==
    /\ Finished("t1", "update")
    /\ task["t1"].result = Ok
    /\ task["t1"].changes = <<AddItem("MemberOf", NameG)>>
    /\ task["t1"].L.loaded = DirectoryCore.principal[IdU]
    /\ task["t2"].op = "update"
    /\ task["t2"].L.err = Ok
    /\ task["t2"].L.principal_id = IdU
    /\ task["t2"].L.loaded # task["t1"].L.loaded
    /\ ~Contains(task["t2"].L.member_of, IdG)
    /\ <<IdU, IdG>> \in DOMAIN store.memberOf
    /\ store.principal[IdU] # task["t1"].L.loaded

\* C28: names stay unique under concurrent renames and creates: no reachable
\* state holds two Principal records with the same name
C28_UniqueNames ==
    \A a, b \in DOMAIN store.principal :
        store.principal[a].name = store.principal[b].name => a = b

\* C29: emails stay unique under concurrent creates and updates: no reachable
\* state holds two Principal records whose email lists share an email
C29_UniqueEmails ==
    \A a, b \in DOMAIN store.principal :
        Range(store.principal[a].emails) \cap Range(store.principal[b].emails) # {}
        => a = b

\* the email has no domain, or its domain is a Domain of the tenant
EmailDomainOf(st, email, tenant_id) ==
    HasDomain(email)
    => /\ DomainOf(email) \in DOMAIN st.nameToId
       /\ st.nameToId[DomainOf(email)].typ = "Domain"
       /\ st.nameToId[DomainOf(email)].tenant = tenant_id

\* C30: under a tenant scope T an update that sets or adds emails commits
\* only emails that the principal held or whose domain is a Domain principal
\* of T, as create does; an update that returns an error writes nothing
C30_ScopedEmailDomain ==
    [][\A t \in Procs :
          /\ task[t].op = "update" /\ task[t].tenant_id # None
          /\ task[t].pc # "done" /\ task'[t].pc = "done"
          => IF task'[t].result = Ok
             THEN LET id == task[t].L.principal_id
                  IN  \A e \in Range(store'.principal[id].emails)
                                  \ Range(store.principal[id].emails) :
                          EmailDomainOf(store, e, task[t].tenant_id)
             ELSE store' = store]_vars

\* the principal that the update of task t names exists and its record holds
\* another tenant than the scope of the call, or none
ForeignTarget(t) ==
    LET ids == ResolveId(store, task'[t].by)
    IN  /\ task'[t].op = "update"
        /\ task'[t].tenant_id # None
        /\ ids # {}
        /\ The(ids) \in DOMAIN store.principal
        /\ store.principal[The(ids)].tenant # task'[t].tenant_id

\* C31: update_principal under tenant_scope = T on a principal whose tenant is
\* not T, named by name or by id, fails and changes no key
C31_ForeignUpdateFails ==
    [][\A t \in Procs :
          task'[t] # task[t] /\ ForeignTarget(t)
          => /\ store' = store
             /\ task'[t].pc = "done"
             /\ task'[t].result.kind # "Ok"]_vars

\* the built-in id that the name stands for in the Roles field when the
\* lookup of the name yields no principal accessible to the scope, else none
RoleFallback(st, field, name, tenant_id) ==
    IF /\ field = "Roles"
       /\ \A v \in get_principal_info(st, name) : v.tenant # tenant_id /\ tenant_id # None
    THEN CASE name = NameAdmin -> {ROLE_ADMIN}
           [] name = NameTenantAdmin -> {ROLE_TENANT_ADMIN}
           [] name = NameUser -> {ROLE_USER}
           [] OTHER -> {}
    ELSE {}

\* the principal info that the create of task t resolved for its i-th role
CreateRole(t, i) ==
    task'[t].v.member_of[Len(task'[t].inp.memberOf) + Len(task'[t].inp.lists) + i]

\* C32: "admin", "tenant-admin" and "user" resolve to the built-in role ids,
\* with type Role, only in the Roles field and only when the lookup of the
\* name yields no accessible principal; in MemberOf, Lists and Members a name
\* without a principal yields NotFound (in a create, once the name of the new
\* principal is found free)
C32_RoleNames ==
    [][\A t \in Procs :
          /\ StartsCreate(t)
             => LET inp == task'[t].inp
                    missing == {n \in Range(inp.memberOf) \cup Range(inp.lists)
                                      \cup Range(inp.members) :
                                   get_principal_info(store, n) = {}}
                IN  /\ missing # {} /\ ToLower(inp.name) \notin DOMAIN store.nameToId
                       => task'[t].result.kind = "NotFound"
                    /\ task'[t].pc = "commit"
                       => \A i \in DOMAIN inp.roles :
                             /\ CreateRole(t, i).id \in BuiltinRoles
                                => /\ {CreateRole(t, i).id}
                                        = RoleFallback(store, "Roles", inp.roles[i],
                                                       task'[t].tenant_id)
                                   /\ CreateRole(t, i).typ = "Role"
                             /\ RoleFallback(store, "Roles", inp.roles[i],
                                             task'[t].tenant_id) # {}
                                => CreateRole(t, i).id \in BuiltinRoles
          /\ AtEdgeChange(t, "AddItem") /\ task'[t] # task[t]
             => LET c == task[t].changes[task[t].next]
                    fallback == RoleFallback(store, c.field, c.val, task[t].tenant_id)
                IN  /\ c.field # "Roles" /\ get_principal_info(store, c.val) = {}
                       => task'[t].L.err.kind = "NotFound"
                    /\ \A k \in NewEdges(t) :
                          k[2] \in BuiltinRoles => fallback = {k[2]}
                    /\ fallback # {} /\ ~Contains(task[t].L.member_of, The(fallback))
                       => /\ task'[t].L.err = Ok
                          /\ <<task[t].L.principal_id, The(fallback)>> \in NewEdges(t)]_vars

C34_SameTenant ==
    \A id \in DOMAIN store.principal :
        LET name == store.principal[id].name
        IN  name \in DOMAIN store.nameToId /\ store.nameToId[name].id = id
            => store.principal[id].tenant = store.nameToId[name].tenant

\* the type of the targets that a membership field of a principal links to
FieldType(field) ==
    CASE field = "MemberOf" -> "Group"
      [] field = "Lists" -> "List"
      [] field = "Roles" -> "Role"

\* C35: the commit of a Set or RemoveItem change on MemberOf, Lists or Roles
\* adds or removes only forward edges whose target has the type of that
\* field: the edges of the principal to targets of the other types stay
C35_FieldFrame ==
    [][\A t \in Procs :
          /\ task[t].op = "update" /\ task[t].pc = "commit" /\ task'[t].pc = "done"
          /\ Len(task[t].changes) = 1
          /\ task[t].changes[1].action \in {"Set", "RemoveItem"}
          /\ task[t].changes[1].field \in {"MemberOf", "Lists", "Roles"}
          => \A k \in DOMAIN store.memberOf \cup DOMAIN store'.memberOf :
                /\ k[1] = task[t].L.principal_id
                /\ TypeOfPeer(store, k[2]) # FieldType(task[t].changes[1].field)
                => /\ k \in DOMAIN store.memberOf
                   /\ k \in DOMAIN store'.memberOf
                   /\ store'.memberOf[k] = store.memberOf[k]]_vars

\* some NameToId or EmailToId value or some MemberOf or Members key holds id
Referenced(st, id) ==
    \/ \E n \in DOMAIN st.nameToId : st.nameToId[n].id = id
    \/ \E e \in DOMAIN st.emailToId : st.emailToId[e].id = id
    \/ \E k \in DOMAIN st.memberOf \cup st.members : id \in {k[1], k[2]}

\* C36: when a delete_principal of p has committed and every concurrent
\* create_principal and update_principal has finished, no NameToId, EmailToId,
\* MemberOf or Members entry references the id of p
C36_DeletedUnreferenced ==
    (\A t \in Procs : task[t].pc \in {"idle", "done"})
    => \A t \in Procs :
          Succeeded(t, "delete") => ~Referenced(store, task[t].principal_id)

\* C37: an update that changes a field other than MemberOf, Members, Lists
\* and Roles and comes to its commit when the Principal record it loaded is
\* deleted is rejected with an assertion failure and writes nothing; no
\* commit of an update re-creates a deleted Principal record or adds a
\* NameToId or EmailToId entry for it
C37_NoCommitAfterDelete ==
    [][\A t \in Procs :
          /\ task[t].op = "update" /\ task[t].pc = "commit" /\ task'[t].pc = "done"
          /\ task[t].L.principal_id \notin DOMAIN store.principal
          => /\ (\E i \in DOMAIN task[t].changes :
                    task[t].changes[i].field \notin {"MemberOf", "Members", "Lists", "Roles"})
                => task'[t].result = AssertionFailure /\ store' = store
             /\ store'.principal = store.principal
             /\ store'.nameToId = store.nameToId
             /\ store'.emailToId = store.emailToId]_vars

\* the update of u@d that adds an email loaded the record before the delete
\* of u@d committed, and was rejected at its commit after it
C37_Witness ==
    /\ Finished("t1", "update")
    /\ task["t1"].result = AssertionFailure
    /\ task["t1"].L.principal_id = IdU
    /\ task["t1"].changes = <<Change("AddItem", "Emails", "String", NameA)>>
    /\ Succeeded("t2", "delete")
    /\ task["t2"].principal_id = IdU
    /\ started = 2
    /\ IdU \notin DOMAIN store.principal
    /\ NameA \notin DOMAIN store.emailToId

\* the tenant is absent or the id of a stored principal of type Tenant
TenantExists(st, tenant) ==
    \A T \in tenant : T \in DOMAIN st.principal /\ st.principal[T].typ = "Tenant"

\* C38: every tenant id recorded on a stored principal or in a NameToId
\* PrincipalInfo is the id of an existing Tenant principal, also when the
\* delete of the tenant runs together with a create under the tenant or with a
\* Set Tenant to it
C38_TenantsExist ==
    /\ \A id \in DOMAIN store.principal : TenantExists(store, store.principal[id].tenant)
    /\ \A n \in DOMAIN store.nameToId : TenantExists(store, store.nameToId[n].tenant)

\* task t2 commits the RemoveItem of the field and name of the AddItem that
\* task t1 has finished with success before, under the same tenant scope, and
\* the edges that the AddItem wrote are there
RemovesAdded ==
    /\ Succeeded("t1", "update")
    /\ EdgesSet(task["t1"].L.batch) # {}
    /\ EdgesSet(task["t1"].L.batch) \subseteq DOMAIN store.memberOf
    /\ task["t2"].op = "update" /\ task["t2"].pc = "commit" /\ task'["t2"].pc = "done"
    /\ task["t2"].tenant_id = task["t1"].tenant_id
    /\ task["t2"].changes[1].field = task["t1"].changes[1].field
    /\ task["t2"].changes[1].val = task["t1"].changes[1].val

\* C39: when AddItem of a name on MemberOf, Lists or Roles succeeded and added
\* an edge, the following RemoveItem of that name on that field under the same
\* tenant scope removes that edge and its reverse edge and nothing else, so
\* that the MemberOf and Members keys are those before the AddItem
C39_RemoveUndoesAdd ==
    [][RemovesAdded
       => LET added == EdgesSet(task["t1"].L.batch)
          IN  /\ task'["t2"].result = Ok
              /\ DOMAIN store'.memberOf = DOMAIN store.memberOf \ added
              /\ store'.members = store.members \ {<<k[2], k[1]>> : k \in added}]_vars


\* task t commits its delete_principal
CommitsDelete(t) ==
    task[t].op = "delete" /\ task[t].pc = "commit" /\ task'[t].pc = "done"

\* the entries of the index f of st that hold an id other than id
EntriesNotOf(f, id) == {<<k, f[k]>> : k \in {x \in DOMAIN f : f[x].id # id}}

\* C40: the commit of a delete_principal of p leaves every Principal record
\* other than p's, every NameToId and EmailToId entry that does not hold p's
\* id, every MemberOf and Members edge that is not incident to p's id, and
\* every UsedQuota counter other than p's and that of p's tenant as they were
C40_DeleteFrame ==
    [][\A t \in Procs :
          CommitsDelete(t)
          => LET p == task[t].principal_id
                 tenant == task[t].principal.tenant
             IN  /\ \A id \in (DOMAIN store.principal \cup DOMAIN store'.principal) \ {p} :
                        Get(store'.principal, id) = Get(store.principal, id)
                 /\ EntriesNotOf(store'.nameToId, p) = EntriesNotOf(store.nameToId, p)
                 /\ EntriesNotOf(store'.emailToId, p) = EntriesNotOf(store.emailToId, p)
                 /\ \A k \in DOMAIN store.memberOf \cup DOMAIN store'.memberOf :
                        p \notin {k[1], k[2]}
                        => Get(store'.memberOf, k) = Get(store.memberOf, k)
                 /\ \A k \in store.members \cup store'.members :
                        p \notin {k[1], k[2]}
                        => (k \in store'.members <=> k \in store.members)
                 /\ \A id \in (DOMAIN store.usedQuota \cup DOMAIN store'.usedQuota)
                                 \ ({p} \cup tenant) :
                        GetCounter(store', id) = GetCounter(store, id)]_vars

=============================================================================
